---------------------------- MODULE Spec2Model ----------------------------
(***************************************************************************)
(* A model of the zookeeper-ui server (server/index.js): the schema        *)
(* loader, the type registry, the path-type resolver and the protobuf      *)
(* codec endpoints.                                                        *)
(*                                                                         *)
(* Text is modelled as a sequence of one-character strings, so that the    *)
(* regular expressions, prefix tests, splits and number formatting of the  *)
(* code are computed rather than assumed.  Integers that do not fit TLC's  *)
(* 32-bit integers (64-bit fields, the 2^53 safe-integer limit) are        *)
(* decimal digit sequences with exact arithmetic on them.                  *)
(***************************************************************************)
EXTENDS Integers, Sequences, FiniteSets, TLC

VARIABLES
    dirEntries,     \* names readdir(PROTO_DIR) yields (the environment)
    readdirFails,   \* whether readdir(PROTO_DIR) rejects (the environment)
    syntaxErrAt,    \* file -> number of declarations parsed before a syntax error (NoErr: none)
    protoRoot,      \* let protoRoot: the published registry, nodes in insertion order
    messageTypes,   \* let messageTypes: the list of fully qualified names
    loadPc,         \* position of start()/loadProtos(): "start", "readdir", "loading", "done"
    pending,        \* files whose fs.readFile callback protoRoot.load still awaits
    loadOutcome,    \* "none", "nofiles", "ok", "failed": how loadProtos ended
    listening,      \* app.listen was called: requests are served
    decodeReq,      \* the last POST /api/decode request body
    decodeResp,     \* its response
    encodeReq,      \* the last POST /api/encode request body
    convertedData,  \* const convertedData of that encode request
    encodeResp,     \* its response
    normIn,         \* argument of a direct convertStringNumbers call
    normOut,        \* its result
    ZK_ROOT_PATH,   \* const ZK_ROOT_PATH (process configuration)
    zkPathTypeMap,  \* const zkPathTypeMap: the segment -> type table, in insertion order
    pathMappings,   \* const pathMappings: the ordered (path, type) list of the prefix strategy
    resolvePath,    \* argument of the last path-type resolution
    resolveOut,     \* its results under both strategies
    PROTO_IMPORT_PREFIX, \* const PROTO_IMPORT_PREFIX (process configuration)
    READ_ONLY,      \* const READ_ONLY (process configuration)
    importOrigin,   \* origin of the last protoRoot.resolvePath(origin, target) call
    importTarget,   \* its target
    importOut,      \* the path it returned
    statIn,         \* argument of the last formatStat call
    statOut,        \* what the call returned or threw
    zkConnected,    \* let zkConnected
    zkOps,          \* the operations issued to the ZooKeeper client so far
    nodeResp,       \* the response of the last request to a ZooKeeper endpoint, info or protos
    zkTree,         \* the ZooKeeper tree: path -> data of the node, or NoNode
    zkQueue,        \* operations sent on the session, not yet processed (in order)
    nodeCalls,      \* the PUT and DELETE /api/node requests in flight and answered
    viewPath,       \* NodeView: the path prop, the selected node
    viewNode,       \* NodeView: const [node, setNode]
    viewLoading,    \* NodeView: const [loading, setLoading]
    viewError,      \* NodeView: const [error, setError]
    activeTab,      \* NodeView: const [activeTab, setActiveTab]
    decodedData,    \* NodeView: decodedData and decodedMessageType, set together
    tabLoading,     \* DecodedTab: const [loading, setLoading] of the mounted instance
    nodeFetches,    \* getNode calls in flight: the paths asked for
    decodeFetches,  \* decodeData calls in flight
    query,          \* SearchBar: const [query, setQuery]
    filterLoading,  \* SearchBar: const [loading, setLoading]
    debounceRef,    \* SearchBar: the query of the pending timer of debounceRef, or NoTimer
    searchFetches,  \* searchNodes calls in flight: their queries
    lastFilter,     \* the last value passed to onFilterChange
    zkClient,       \* let zkClient: the number of the client held, 0 for null
    clientState,    \* client -> the state the library's client is in
    reconnectTimers, \* pending setTimeout(connectZk, 1000) timers
    searchTree,     \* what zkGetChildren answers at every path (the environment)
    searchPattern,  \* req.query.pattern of the last GET /api/search request
    clientAutoType  \* const autoType of the client for the selected path

vars == <<dirEntries, readdirFails, syntaxErrAt, protoRoot, messageTypes, loadPc,
          pending, loadOutcome, listening, decodeReq, decodeResp, encodeReq,
          convertedData, encodeResp, normIn, normOut, ZK_ROOT_PATH, zkPathTypeMap,
          pathMappings, resolvePath, resolveOut, PROTO_IMPORT_PREFIX, READ_ONLY,
          importOrigin, importTarget, importOut, statIn, statOut, zkConnected,
          zkOps, nodeResp, zkTree, zkQueue, nodeCalls, viewPath, viewNode, viewLoading,
          viewError,
          activeTab, decodedData, tabLoading, nodeFetches, decodeFetches, query,
          filterLoading, debounceRef, searchFetches, lastFilter, zkClient,
          clientState, reconnectTimers, searchTree, searchPattern, clientAutoType>>

loaderVars == <<dirEntries, readdirFails, syntaxErrAt, protoRoot, messageTypes,
                loadPc, pending, loadOutcome, listening>>
codecVars == <<decodeReq, decodeResp, encodeReq, convertedData, encodeResp>>
normVars == <<normIn, normOut>>
configVars == <<ZK_ROOT_PATH, zkPathTypeMap, pathMappings, PROTO_IMPORT_PREFIX, READ_ONLY>>
resolveVars == <<resolvePath, resolveOut>>
importVars == <<importOrigin, importTarget, importOut>>
statVars == <<statIn, statOut>>
nodeVars == <<zkConnected, zkOps, nodeResp>>
raceVars == <<zkTree, zkQueue, nodeCalls>>
\* the state of the models below the write endpoints
viewVars == <<viewPath, viewNode, viewLoading, viewError, activeTab, decodedData, tabLoading,
              nodeFetches, decodeFetches>>
filterVars == <<query, filterLoading, debounceRef, searchFetches, lastFilter>>
connVars == <<zkClient, clientState, reconnectTimers>>
readVars == <<searchTree, searchPattern, clientAutoType>>
extraVars == <<raceVars, viewVars, filterVars, connVars, readVars>>

-----------------------------------------------------------------------------
(* Bounds of the model.                                                    *)

MaxStrLen == 3      \* longest generated text of a string value
MaxArrLen == 2      \* longest generated array
MaxPathLen == 4     \* longest generated node path
MaxMapLen == 2      \* most entries of a generated mapping table
MaxTailLen == 2     \* most tokens of a generated import target after its head
MaxInFlight == 2    \* most PUT and DELETE /api/node requests of a behaviour
MaxClients == 3     \* most ZooKeeper clients a behaviour creates
MaxWide == 101      \* children of the root of the widest generated tree

-----------------------------------------------------------------------------
(* Decimal digit sequences: exact arithmetic on non-negative integers.     *)

Digits == <<"0", "1", "2", "3", "4", "5", "6", "7", "8", "9">>

IsDigit(c) == \E i \in 1..10 : Digits[i] = c

DigitVal(c) == (CHOOSE i \in 1..10 : Digits[i] = c) - 1

DigitChar(n) == Digits[n + 1]

AllDigits(s) == \A i \in 1..Len(s) : IsDigit(s[i])

\* canonical form: no leading zero, at least one digit
StripZeros(ds) ==
    IF \A i \in 1..Len(ds) : ds[i] = "0" THEN <<"0">>
    ELSE SubSeq(ds, CHOOSE i \in 1..Len(ds) :
                        ds[i] # "0" /\ \A j \in 1..(i - 1) : ds[j] = "0",
                Len(ds))

StripTrailingZeros(ds) ==
    IF \A i \in 1..Len(ds) : ds[i] = "0" THEN <<>>
    ELSE SubSeq(ds, 1, CHOOSE i \in 1..Len(ds) :
                           ds[i] # "0" /\ \A j \in (i + 1)..Len(ds) : ds[j] = "0")

\* a < b for digit sequences of equal length
LexLess(a, b) ==
    \E i \in 1..Len(a) :
        /\ DigitVal(a[i]) < DigitVal(b[i])
        /\ \A j \in 1..(i - 1) : a[j] = b[j]

\* a < b and a <= b for canonical digit sequences
DecLess(a, b) ==
    IF Len(a) # Len(b) THEN Len(a) < Len(b) ELSE LexLess(a, b)

DecLE(a, b) == a = b \/ DecLess(a, b)

RECURSIVE IntToDec(_)
IntToDec(n) ==
    IF n < 10 THEN <<DigitChar(n)>>
    ELSE Append(IntToDec(n \div 10), DigitChar(n % 10))

\* the digit of ds at decimal place p (1: units), 0 beyond its length
DigitAt(ds, p) == IF p <= Len(ds) THEN DigitVal(ds[Len(ds) + 1 - p]) ELSE 0

\* a + b, place by place: a carry enters place p when a lower place
\* overflows and every place between passes it on
DecAdd(a, b) ==
    LET n == (IF Len(a) > Len(b) THEN Len(a) ELSE Len(b)) + 1
        sum(p) == DigitAt(a, p) + DigitAt(b, p)
        carry(p) == \E q \in 1..(p - 1) :
                        sum(q) >= 10 /\ \A k \in (q + 1)..(p - 1) : sum(k) = 9
    IN  StripZeros([i \in 1..n |->
            LET p == n + 1 - i
            IN  DigitChar((sum(p) + (IF carry(p) THEN 1 ELSE 0)) % 10)])

\* a - b, for a >= b: a borrow enters place p when a lower place falls
\* short and every place between passes it on
DecSub(a, b) ==
    LET n == Len(a)
        diff(p) == DigitAt(a, p) - DigitAt(b, p)
        borrow(p) == \E q \in 1..(p - 1) :
                        diff(q) < 0 /\ \A k \in (q + 1)..(p - 1) : diff(k) = 0
    IN  StripZeros([i \in 1..n |->
            LET p == n + 1 - i
            IN  DigitChar((diff(p) - (IF borrow(p) THEN 1 ELSE 0) + 10) % 10)])

\* 10^(p - 1) modulo m, for p <= 19
PlaceMod(p, m) ==
    IF p <= 10 THEN (10 ^ (p - 1)) % m
    ELSE (((10 ^ 9) % m) * ((10 ^ (p - 10)) % m)) % m

\* the value of ds modulo m, for m a power of two up to 2^15: such an m
\* divides 10^15, so the fifteen lowest places decide
DecMod(ds, m) ==
    LET t(p) == DigitAt(ds, p) * PlaceMod(p, m)
    IN  (t(1) + t(2) + t(3) + t(4) + t(5) + t(6) + t(7) + t(8) + t(9) + t(10)
         + t(11) + t(12) + t(13) + t(14) + t(15)) % m

TwoTo53 == <<"9","0","0","7","1","9","9","2","5","4","7","4","0","9","9","2">>
TwoTo63 == <<"9","2","2","3","3","7","2","0","3","6","8","5","4","7","7","5","8","0","8">>
TwoTo64 == <<"1","8","4","4","6","7","4","4","0","7","3","7","0","9","5","5","1","6","1","6">>

\* Number.MAX_SAFE_INTEGER = 2^53 - 1
MaxSafeInteger == DecSub(TwoTo53, <<"1">>)

Twice(ds) == DecAdd(ds, ds)

RECURSIVE PowersFrom(_, _)
\* lo, 2 lo, 4 lo, ...: n values
PowersFrom(lo, n) == IF n = 0 THEN <<>> ELSE <<lo>> \o PowersFrom(Twice(lo), n - 1)

\* 2^53, 2^54, ..., 2^67
Binades == PowersFrom(TwoTo53, 15)

\* the e with 2^e <= ds < 2^(e+1), for 2^53 <= ds < 2^67
BinadeOf(ds) == 52 + Cardinality({i \in 1..Len(Binades) : DecLE(Binades[i], ds)})

\* The IEEE-754 double nearest to the integer ds (ties to even): what Number()
\* yields for a string of digits.  Exact up to 2^53; above it the spacing of
\* doubles is 2^(e-52).  For texts of up to twenty digits.
RoundToDouble(ds) ==
    IF DecLE(ds, TwoTo53) THEN ds
    ELSE LET ulp  == 2 ^ (BinadeOf(ds) - 52)
             r    == DecMod(ds, ulp)
             down == DecSub(ds, IntToDec(r))
             up   == DecAdd(ds, IntToDec(ulp - r))
         IN  IF r = 0 THEN ds
             ELSE IF 2 * r < ulp THEN down
             ELSE IF 2 * r > ulp THEN up
             ELSE IF DecMod(down, 2 * ulp) = 0 THEN down ELSE up

-----------------------------------------------------------------------------
(* JSON values, as express.json() parses them and res.json() writes them.  *)

JStr(s) == [t |-> "string", s |-> s]

\* a finite number: sign, integer digits (canonical), fraction digits (no
\* trailing zero); -0 is neg with int <<"0">>
JNum(neg, int, frac) == [t |-> "number", neg |-> neg, int |-> int, frac |-> frac]

JBool(b) == [t |-> "boolean", b |-> b]

JNull == [t |-> "null"]

JArr(a) == [t |-> "array", a |-> a]

ObjectPrototype == [t |-> "Object.prototype"]

\* an object: own enumerable keys in Object.entries order, their values, and
\* the prototype
JObj(keys, val, proto) == [t |-> "object", keys |-> keys, val |-> val, proto |-> proto]

EmptyObject == JObj(<<>>, <<>>, ObjectPrototype)

SeqToSet(s) == {s[i] : i \in 1..Len(s)}

\* result[key] = value on a plain object.  The key "__proto__" reaches the
\* accessor of Object.prototype: it replaces the prototype when the value is
\* an object or null and does nothing otherwise; no own property is created.
ObjectSet(result, key, value) ==
    IF key = "__proto__"
    THEN IF value.t \in {"object", "array", "null"}
         THEN [result EXCEPT !.proto = value]
         ELSE result
    ELSE IF key \in SeqToSet(result.keys)
    THEN [result EXCEPT !.val = [k \in DOMAIN result.val |->
                                    IF k = key THEN value ELSE result.val[k]]]
    ELSE [result EXCEPT !.keys = Append(result.keys, key),
                        !.val = [k \in DOMAIN result.val \cup {key} |->
                                    IF k = key THEN value ELSE result.val[k]]]

\* the object JSON.parse builds from the entries (key, value) in text order:
\* every key, "__proto__" included, becomes an own property
RECURSIVE ObjectOf(_)
ObjectOf(entries) ==
    IF entries = <<>> THEN EmptyObject
    ELSE LET rest == ObjectOf(SubSeq(entries, 1, Len(entries) - 1))
             e    == entries[Len(entries)]
         IN  IF e[1] \in SeqToSet(rest.keys)
             THEN [rest EXCEPT !.val = [k \in DOMAIN rest.val |->
                                           IF k = e[1] THEN e[2] ELSE rest.val[k]]]
             ELSE [rest EXCEPT !.keys = Append(rest.keys, e[1]),
                               !.val = [k \in DOMAIN rest.val \cup {e[1]} |->
                                           IF k = e[1] THEN e[2] ELSE rest.val[k]]]

-----------------------------------------------------------------------------
(* JavaScript's number parsing and formatting.                             *)

\* s without a leading minus sign
Unsigned(s) == IF s # <<>> /\ s[1] = "-" THEN Tail(s) ELSE s

\* /^-?\d+$/.test(s)
IntegerRegex(s) == Unsigned(s) # <<>> /\ AllDigits(Unsigned(s))

\* /^-?\d+\.\d+$/.test(s)
DecimalRegex(s) ==
    LET body == Unsigned(s)
    IN  \E k \in 2..(Len(body) - 1) :
            /\ body[k] = "."
            /\ AllDigits(SubSeq(body, 1, k - 1))
            /\ AllDigits(SubSeq(body, k + 1, Len(body)))

\* Number(s) for a string the integer regex accepts: the nearest double
NumberOf(s) ==
    JNum(s[1] = "-", RoundToDouble(StripZeros(Unsigned(s))), <<>>)

\* Number.isSafeInteger(num)
IsSafeInteger(num) == num.frac = <<>> /\ DecLE(num.int, MaxSafeInteger)

\* parseFloat(s) for a string the decimal regex accepts.  Exact for the
\* short decimals of the model (up to 15 significant digits).
ParseFloat(s) ==
    LET body == Unsigned(s)
        k    == CHOOSE i \in 2..(Len(body) - 1) : body[i] = "."
    IN  JNum(s[1] = "-", StripZeros(SubSeq(body, 1, k - 1)),
             StripTrailingZeros(SubSeq(body, k + 1, Len(body))))

\* String(num): the shortest decimal text of a number below 1e21 in
\* magnitude and not below 1e-6; -0 prints as "0"
NumberToString(num) ==
    LET isZero == num.int = <<"0">> /\ num.frac = <<>>
    IN  (IF num.neg /\ ~isZero THEN <<"-">> ELSE <<>>)
        \o num.int
        \o (IF num.frac = <<>> THEN <<>> ELSE <<".">> \o num.frac)

-----------------------------------------------------------------------------
(* convertStringNumbers                                                    *)

convertString_AlwaysNumber(obj) ==
    IF IntegerRegex(obj.s) THEN NumberOf(obj.s)
    ELSE IF DecimalRegex(obj.s) THEN ParseFloat(obj.s)
    ELSE obj

\* the string branch of convertStringNumbers
convertString(obj) ==
    IF IntegerRegex(obj.s)
    THEN LET num == NumberOf(obj.s)
         IN  IF IsSafeInteger(num) THEN num ELSE obj
    ELSE IF DecimalRegex(obj.s) THEN ParseFloat(obj.s)
    ELSE obj

RECURSIVE convertStringNumbers(_)
RECURSIVE convertEntries(_, _)

\* for (const [key, value] of Object.entries(obj)) result[key] = convertStringNumbers(value)
convertEntries(obj, n) ==
    IF n = 0 THEN EmptyObject
    ELSE ObjectSet(convertEntries(obj, n - 1), obj.keys[n],
                   convertStringNumbers(obj.val[obj.keys[n]]))

convertStringNumbers(obj) ==
    IF obj.t = "null" THEN obj
    ELSE IF obj.t = "array"
    THEN JArr([i \in 1..Len(obj.a) |-> convertStringNumbers(obj.a[i])])
    ELSE IF obj.t = "object" THEN convertEntries(obj, Len(obj.keys))
    ELSE IF obj.t = "string" THEN convertString(obj)
    ELSE obj

-----------------------------------------------------------------------------
(* The type registry: protobuf.Root as the library builds it.              *)
(*                                                                         *)
(* A registry is the sequence of its reflection objects in insertion       *)
(* order.  A node is [path, kind]: path is the sequence of names from the  *)
(* root, kind is "namespace", "type" (protobuf.Type) or "enum".  The       *)
(* entries of ns.nested are the nodes one name below ns, in this order.    *)

Node(path, kind) == [path |-> path, kind |-> kind]

\* new protobuf.Root()
NewRoot == <<>>

Last(s) == s[Len(s)]

IsPrefixOf(p, s) == Len(p) <= Len(s) /\ SubSeq(s, 1, Len(p)) = p

\* Object.entries(ns.nested || {}) as values, for the namespace at path ns
NestedArray(root, ns) ==
    SelectSeq(root, LAMBDA n : Len(n.path) = Len(ns) + 1 /\ IsPrefixOf(ns, n.path))

Has(root, path) == \E i \in 1..Len(root) : root[i].path = path

NodeAt(root, path) == root[CHOOSE i \in 1..Len(root) : root[i].path = path]

NotFound == [path |-> <<>>, kind |-> "null"]

\* ns.get(name): this.nested && this.nested[name] || null
Get(root, ns, name) ==
    IF Has(root, Append(ns, name)) THEN NodeAt(root, Append(ns, name)) ELSE NotFound

\* value instanceof Namespace: a Type is a Namespace, an Enum is not
IsNamespace(n) == n.kind \in {"namespace", "type"}

RECURSIVE Define(_, _, _)
\* ns.define(path): creates the namespaces of path that do not exist yet
Define(root, path, n) ==
    IF n = 0 THEN root
    ELSE LET r == Define(root, path, n - 1)
             p == SubSeq(path, 1, n)
         IN  IF Has(r, p) THEN r ELSE Append(r, Node(p, "namespace"))

RECURSIVE Split(_, _)
\* name.split(sep) for a text of name tokens and separator tokens: the
\* parts between separators, "" for an empty part
Split(s, sep) ==
    IF s = <<>> THEN <<"">>
    ELSE LET rest == Split(Tail(s), sep)
         IN  IF s[1] = sep THEN <<"">> \o rest
             ELSE <<s[1] \o rest[1]>> \o Tail(rest)

RECURSIVE Lookup(_, _, _, _)
RECURSIVE LookupNested(_, _, _)

\* for (i...) if (nestedArray[i] instanceof Namespace &&
\*     (found = nestedArray[i].lookup(path, filterTypes, true))) return found
LookupNested(root, nested, path) ==
    IF nested = <<>> THEN NotFound
    ELSE LET found == IF IsNamespace(nested[1])
                      THEN Lookup(root, nested[1].path, path, TRUE)
                      ELSE NotFound
         IN  IF found # NotFound THEN found
             ELSE LookupNested(root, Tail(nested), path)

\* Namespace.prototype.lookup(path, [Type], parentAlreadyChecked) on the
\* namespace at ns, path already split
Lookup(root, ns, path, parentAlreadyChecked) ==
    IF path = <<>> THEN NotFound     \* the namespace itself: no Type
    ELSE IF path[1] = "" THEN Lookup(root, <<>>, Tail(path), FALSE)
    ELSE
      LET first == Get(root, ns, path[1])
          here  ==
            IF first # NotFound
            THEN IF Len(path) = 1
                 THEN (IF first.kind = "type" THEN first ELSE NotFound)
                 ELSE IF IsNamespace(first)
                 THEN Lookup(root, first.path, Tail(path), TRUE)
                 ELSE NotFound
            ELSE LookupNested(root, NestedArray(root, ns), path)
      IN  IF here # NotFound THEN here
          ELSE IF ns = <<>> \/ parentAlreadyChecked THEN NotFound
          ELSE Lookup(root, SubSeq(ns, 1, Len(ns) - 1), path, FALSE)

\* protoRoot.lookupType(typeName): the Type, or NotFound where the library
\* throws Error("no such type: ...")
lookupType(root, typeName) ==
    IF typeName = <<".">> THEN NotFound
    ELSE Lookup(root, <<>>, Split(typeName, "."), FALSE)

-----------------------------------------------------------------------------
(* The schema directory.  A file name is its text split at the dots; a     *)
(* schema file is the sequence of its top-level statements, each the       *)
(* package it declares or the reflection objects it adds once parsed.      *)

FileA == <<"a", ".", "proto">>
FileB == <<"b", ".", "proto">>
FileC == <<"c", ".", "proto">>
FileTxt == <<"readme", ".", "txt">>
FileBak == <<"d", ".", "proto", ".", "bak">>

DirUniverse == {FileA, FileB, FileC, FileTxt, FileBak}

Package(path) == [package |-> path, nodes |-> <<>>]

Declare(nodes) == [package |-> <<>>, nodes |-> nodes]

\* a.proto: package pkg; message Backend { message Inner { message Deep {} }
\*          enum Kind {} }  enum Status {}
\* b.proto: package pkg.sub; message Config {}  message Backend {}
\* c.proto: message Top { enum Level {}  message Config {} }
Statements(file) ==
    IF file = FileA THEN
        << Package(<<"pkg">>),
           Declare(<< Node(<<"pkg", "Backend">>, "type"),
                      Node(<<"pkg", "Backend", "Inner">>, "type"),
                      Node(<<"pkg", "Backend", "Inner", "Deep">>, "type"),
                      Node(<<"pkg", "Backend", "Kind">>, "enum") >>),
           Declare(<< Node(<<"pkg", "Status">>, "enum") >>) >>
    ELSE IF file = FileB THEN
        << Package(<<"pkg", "sub">>),
           Declare(<< Node(<<"pkg", "sub", "Config">>, "type") >>),
           Declare(<< Node(<<"pkg", "sub", "Backend">>, "type") >>) >>
    ELSE IF file = FileC THEN
        << Declare(<< Node(<<"Top">>, "type"),
                      Node(<<"Top", "Level">>, "enum"),
                      Node(<<"Top", "Config">>, "type") >>) >>
    ELSE <<>>

\* f.includes('.proto'): the extension anywhere in the name
EndsWithProto_Includes(f) ==
    \E i \in 1..(Len(f) - 1) : f[i] = "." /\ f[i + 1] = "proto"

\* f.endsWith('.proto')
EndsWithProto(f) == Len(f) >= 2 /\ SubSeq(f, Len(f) - 1, Len(f)) = <<".", "proto">>

RECURSIVE Parse(_, _, _)
\* parse(source, root): the first n statements of the file take effect, in
\* order; a package statement defines its namespaces, a declaration is added
\* to its parent once its block is parsed
Parse(root, file, n) ==
    IF n = 0 THEN root
    ELSE LET r  == Parse(root, file, n - 1)
             st == Statements(file)[n]
         IN  Define(r, st.package, Len(st.package)) \o st.nodes

\* the file has a syntax error
Broken(file) == syntaxErrAt[file] < Len(Statements(file))

-----------------------------------------------------------------------------
(* extractTypes (the function nested in loadProtos)                        *)

\* as FullName, but the name is not qualified
FullName_Unqualified(prefix, name) == <<name>>

\* const fullName = prefix ? `${prefix}.${name}` : name
FullName(prefix, name) == IF prefix # <<>> THEN prefix \o <<".", name>> ELSE <<name>>

RECURSIVE extractTypes(_, _, _)
RECURSIVE extractEntries(_, _, _)

\* as extractTypes, but nested types of a message type are not visited
extractEntries_SkipNestedOfTypes(root, entries, prefix) ==
    IF entries = <<>> THEN <<>>
    ELSE LET value    == entries[1]
             fullName == FullName(prefix, Last(value.path))
         IN  (IF value.kind = "type" THEN <<fullName>> ELSE <<>>)
             \o (IF value.kind # "type" /\ NestedArray(root, value.path) # <<>>
                 THEN extractTypes(root, value.path, fullName)
                 ELSE <<>>)
             \o extractEntries(root, Tail(entries), prefix)

\* the loop body over the entries of ns.nested, from the first entry on
extractEntries(root, entries, prefix) ==
    IF entries = <<>> THEN <<>>
    ELSE LET value    == entries[1]
             fullName == FullName(prefix, Last(value.path))
         IN  (IF value.kind = "type" THEN <<fullName>> ELSE <<>>)
             \o (IF NestedArray(root, value.path) # <<>>
                 THEN extractTypes(root, value.path, fullName)
                 ELSE <<>>)
             \o extractEntries(root, Tail(entries), prefix)

\* extractTypes(ns, prefix): the names pushed to messageTypes, in order
extractTypes(root, ns, prefix) == extractEntries(root, NestedArray(root, ns), prefix)

-----------------------------------------------------------------------------
(* start() and loadProtos()                                                *)

\* the rest of start() once loadProtos has returned: connectZk(), app.listen()
StartContinues == listening' = TRUE

\* start() calls loadProtos(), which awaits readdir(PROTO_DIR)
LoadProtosStart ==
    /\ loadPc = "start"
    /\ loadPc' = "readdir"
    /\ UNCHANGED <<dirEntries, readdirFails, syntaxErrAt, protoRoot, messageTypes,
                   pending, loadOutcome, listening>>
    /\ UNCHANGED extraVars
    /\ UNCHANGED <<codecVars, normVars, configVars, resolveVars>>
    /\ UNCHANGED <<importVars, statVars, nodeVars>>

\* readdir settles: no schema file ends the load; otherwise a new Root is
\* assigned to protoRoot and protoRoot.load(filePaths) starts reading every file
ReaddirSettles ==
    /\ loadPc = "readdir"
    /\ LET files      == IF readdirFails THEN {} ELSE dirEntries
           protoFiles == {f \in files : EndsWithProto(f)}
       IN  IF protoFiles = {}
           THEN /\ loadPc' = "done"
                /\ loadOutcome' = "nofiles"
                /\ StartContinues
                /\ UNCHANGED <<protoRoot, pending>>
           ELSE /\ protoRoot' = NewRoot
                /\ pending' = protoFiles
                /\ loadPc' = "loading"
                /\ UNCHANGED <<loadOutcome, listening>>
    /\ UNCHANGED <<dirEntries, readdirFails, syntaxErrAt, messageTypes>>
    /\ UNCHANGED extraVars
    /\ UNCHANGED <<codecVars, normVars, configVars, resolveVars>>
    /\ UNCHANGED <<importVars, statVars, nodeVars>>

\* the end of loadProtos after protoRoot.load settled either way:
\* messageTypes = []; extractTypes(protoRoot); then start() continues
ExtractAndReturn(outcome) ==
    /\ messageTypes' = extractTypes(protoRoot', <<>>, <<>>)
    /\ loadOutcome' = outcome
    /\ loadPc' = "done"
    /\ pending' = {}
    /\ StartContinues

\* The read of one file completes and the library parses it into protoRoot.
\* A syntax error rejects the load (the callbacks of the other files then do
\* nothing); the last file resolves it.  loadProtos resumes in the same turn.
FileRead(f) ==
    /\ loadPc = "loading"
    /\ f \in pending
    /\ protoRoot' = Parse(protoRoot, f, syntaxErrAt[f])
    /\ IF Broken(f) THEN ExtractAndReturn("failed")
       ELSE IF pending = {f} THEN ExtractAndReturn("ok")
       ELSE /\ pending' = pending \ {f}
            /\ UNCHANGED <<messageTypes, loadOutcome, loadPc, listening>>
    /\ UNCHANGED <<dirEntries, readdirFails, syntaxErrAt>>
    /\ UNCHANGED extraVars
    /\ UNCHANGED <<codecVars, normVars, configVars, resolveVars>>
    /\ UNCHANGED <<importVars, statVars, nodeVars>>

-----------------------------------------------------------------------------
(* Message types of the schema and their wire form.                        *)
(*                                                                         *)
(* message Backend { int64 id = 1; uint64 uid = 2; string name = 3;        *)
(*                   bytes blob = 4; repeated string tags = 5; }           *)
(* The other message types of the schema files have no fields.             *)
(*                                                                         *)
(* A payload (the bytes behind dataHex) is the sequence of the fields it   *)
(* encodes, [f, v], in the order of the bytes.  A 64-bit value is its 64   *)
(* bits as an unsigned decimal, a string its characters, a bytes value     *)
(* its octets.                                                             *)

Field(name, kind, repeated) == [name |-> name, kind |-> kind, repeated |-> repeated]

BackendFields ==
    << Field("id", "int64", FALSE), Field("uid", "uint64", FALSE),
       Field("name", "string", FALSE), Field("blob", "bytes", FALSE),
       Field("tags", "string", TRUE) >>

\* MessageType.fieldsArray, sorted by id
FieldsOf(type) == IF type.path = <<"pkg", "Backend">> THEN BackendFields ELSE <<>>

WLong(bits) == [k |-> "long", bits |-> bits]
WString(s) == [k |-> "string", s |-> s]
WBytes(b) == [k |-> "bytes", b |-> b]
WList(l) == [k |-> "list", l |-> l]
Unset == [k |-> "unset"]

\* a field whose bytes end before its announced length
WTruncated == [k |-> "truncated"]

Entry(f, v) == [f |-> f, v |-> v]

RECURSIVE ValuesOf(_, _)
\* the values the payload carries for field f, in order
ValuesOf(payload, f) ==
    IF payload = <<>> THEN <<>>
    ELSE (IF payload[1].f = f THEN <<payload[1].v>> ELSE <<>>)
         \o ValuesOf(Tail(payload), f)

\* MessageType.decode(buffer): a scalar field keeps the last value read, a
\* repeated field collects them; a field not in the payload is not set
DecodeMessage(type, payload) ==
    [i \in 1..Len(FieldsOf(type)) |->
        LET fld == FieldsOf(type)[i]
            vs  == ValuesOf(payload, fld.name)
        IN  IF vs = <<>> THEN Unset
            ELSE IF fld.repeated THEN WList(vs)
            ELSE vs[Len(vs)]]

\* MessageType.encode(message).finish(): in field order, every scalar field
\* that is set and every element of a non-empty repeated field
RECURSIVE EncodeMessage(_, _, _)
EncodeMessage(type, message, n) ==
    IF n = 0 THEN <<>>
    ELSE LET fld == FieldsOf(type)[n]
             v   == message[n]
         IN  EncodeMessage(type, message, n - 1)
             \o (IF v = Unset THEN <<>>
                 ELSE IF fld.repeated
                 THEN [j \in 1..Len(v.l) |-> Entry(fld.name, v.l[j])]
                 ELSE <<Entry(fld.name, v)>>)

-----------------------------------------------------------------------------
(* Long (64-bit integers of the library) and base64.                       *)

\* Long.prototype.toString() of the 64 bits, read as signed or unsigned
LongToString(bits, unsigned) ==
    IF unsigned \/ DecLess(bits, TwoTo63) THEN bits
    ELSE <<"-">> \o DecSub(TwoTo64, bits)

RECURSIVE Mod64(_)
Mod64(ds) == IF DecLess(ds, TwoTo64) THEN ds ELSE Mod64(DecSub(ds, TwoTo64))

\* Long.prototype.neg() on the 64 bits
LongNeg(bits) == IF bits = <<"0">> THEN bits ELSE DecSub(TwoTo64, bits)

\* Long.fromNumber(value) for a finite number: clamped to the signed range,
\* the fraction dropped
LongFromNumber(num) ==
    IF num.neg
    THEN IF DecLE(TwoTo63, num.int) THEN TwoTo63 ELSE LongNeg(num.int)
    ELSE IF DecLE(TwoTo63, num.int) THEN DecSub(TwoTo63, <<"1">>) ELSE num.int

LongError == [k |-> "error"]

RECURSIVE LongFromString(_)
\* Long.fromString(str) for a text of digits and minus signs: the value
\* modulo 2^64; an empty text or a minus sign inside it throws
LongFromString(str) ==
    IF str = <<>> THEN LongError
    ELSE IF \E i \in 2..Len(str) : str[i] = "-" /\ \A j \in 1..(i - 1) : str[j] # "-"
    THEN LongError
    ELSE IF str[1] = "-"
    THEN LET rest == LongFromString(Tail(str))
         IN  IF rest = LongError THEN LongError ELSE WLong(LongNeg(rest.bits))
    ELSE WLong(Mod64(StripZeros(str)))

B64 == << "A","B","C","D","E","F","G","H","I","J","K","L","M","N","O","P",
          "Q","R","S","T","U","V","W","X","Y","Z","a","b","c","d","e","f",
          "g","h","i","j","k","l","m","n","o","p","q","r","s","t","u","v",
          "w","x","y","z","0","1","2","3","4","5","6","7","8","9","+","/" >>

IsB64(c) == \E i \in 1..64 : B64[i] = c

B64Val(c) == (CHOOSE i \in 1..64 : B64[i] = c) - 1

RECURSIVE Base64Encode(_)
\* util.base64.encode(buffer, 0, buffer.length)
Base64Encode(b) ==
    IF b = <<>> THEN <<>>
    ELSE IF Len(b) = 1
    THEN << B64[(b[1] \div 4) + 1], B64[((b[1] % 4) * 16) + 1], "=", "=" >>
    ELSE IF Len(b) = 2
    THEN << B64[(b[1] \div 4) + 1], B64[((b[1] % 4) * 16 + b[2] \div 16) + 1],
            B64[((b[2] % 16) * 4) + 1], "=" >>
    ELSE << B64[(b[1] \div 4) + 1], B64[((b[1] % 4) * 16 + b[2] \div 16) + 1],
            B64[((b[2] % 16) * 4 + b[3] \div 64) + 1], B64[(b[3] % 64) + 1] >>
         \o Base64Encode(SubSeq(b, 4, Len(b)))

Base64Error == <<-1>>

RECURSIVE Base64Loop(_, _, _, _)
\* the loop of util.base64.decode over the characters from index i, in
\* state j with the previous sextet t
Base64Loop(str, i, j, t) ==
    IF i > Len(str) THEN (IF j = 1 THEN Base64Error ELSE <<>>)
    ELSE IF str[i] = "=" /\ j > 1 THEN <<>>
    ELSE IF ~IsB64(str[i]) THEN Base64Error
    ELSE LET c    == B64Val(str[i])
             rest == Base64Loop(str, i + 1, (j + 1) % 4, c)
             byte == IF j = 1 THEN t * 4 + c \div 16
                     ELSE IF j = 2 THEN (t % 16) * 16 + c \div 4
                     ELSE (t % 4) * 64 + c
         IN  IF rest = Base64Error THEN Base64Error
             ELSE IF j = 0 THEN rest
             ELSE <<byte>> \o rest

\* util.base64.decode(string, buffer, 0): the octets, or Base64Error where
\* it throws
Base64Decode(str) == Base64Loop(str, 1, 0, 0)

-----------------------------------------------------------------------------
(* MessageType.toObject and MessageType.fromObject (the library's          *)
(* converters for the field kinds above).                                  *)

\* toObject(decoded, {longs: String, enums: String, bytes: String,
\* defaults: true}) for one field
ToObjectField(fld, v) ==
    IF fld.repeated
    THEN IF v = Unset THEN JArr(<<>>) ELSE JArr([j \in 1..Len(v.l) |-> JStr(v.l[j].s)])
    ELSE IF fld.kind \in {"int64", "uint64"}
    THEN IF v = Unset THEN JStr(<<"0">>)
         ELSE JStr(LongToString(v.bits, fld.kind = "uint64"))
    ELSE IF fld.kind = "bytes"
    THEN IF v = Unset THEN JStr(<<>>) ELSE JStr(Base64Encode(v.b))
    ELSE IF v = Unset THEN JStr(<<>>) ELSE JStr(v.s)

\* the fields in the order toObject assigns them: the repeated fields
\* first (their [] default), then the others in field order
ToObjectOrder(fields) ==
    SelectSeq([i \in 1..Len(fields) |-> i], LAMBDA i : fields[i].repeated)
    \o SelectSeq([i \in 1..Len(fields) |-> i], LAMBDA i : ~fields[i].repeated)

ToObject(type, message) ==
    LET fields == FieldsOf(type)
        order  == ToObjectOrder(fields)
    IN  ObjectOf([n \in 1..Len(order) |->
                    <<fields[order[n]].name,
                      ToObjectField(fields[order[n]], message[order[n]])>>])

JUndefined == [t |-> "undefined"]

RECURSIVE PropertyGet(_, _)
\* d[key]: an own property, or one inherited through the prototype
PropertyGet(d, key) ==
    IF d.t # "object" THEN JUndefined
    ELSE IF key \in SeqToSet(d.keys) THEN d.val[key]
    ELSE IF d.proto.t = "object" THEN PropertyGet(d.proto, key)
    ELSE JUndefined

\* String(value) for a string, a number or a boolean
JsString(value) ==
    CASE value.t = "string" -> value.s
      [] value.t = "number" -> NumberToString(value)
      [] value.t = "boolean" ->
            IF value.b THEN <<"t", "r", "u", "e">> ELSE <<"f", "a", "l", "s", "e">>

\* if (value) ...
Truthy(value) ==
    CASE value.t \in {"null", "undefined"} -> FALSE
      [] value.t = "string" -> value.s # <<>>
      [] value.t = "number" -> ~(value.int = <<"0">> /\ value.frac = <<>>)
      [] value.t = "boolean" -> value.b
      [] OTHER -> TRUE

ConvertError == [k |-> "error"]

\* fromObject for one field: the value set on the message, Unset when the
\* property is left alone, ConvertError where the converter throws
FromObjectField(fld, value) ==
    IF fld.repeated
    THEN IF ~Truthy(value) THEN Unset
         ELSE IF value.t # "array" THEN ConvertError
         ELSE WList([j \in 1..Len(value.a) |-> WString(JsString(value.a[j]))])
    ELSE IF value.t \in {"null", "undefined"} THEN Unset
    ELSE IF fld.kind \in {"int64", "uint64"}
    THEN \* Long.fromValue(value), then .unsigned is set
         CASE value.t = "number" -> WLong(LongFromNumber(value))
           [] value.t = "string" -> LongFromString(value.s)
           [] OTHER -> WLong(<<"0">>)
    ELSE IF fld.kind = "bytes"
    THEN \* a string is base64 text; a value without a length sets nothing
         CASE value.t = "string" ->
                LET b == Base64Decode(value.s)
                IN  IF b = Base64Error THEN ConvertError ELSE WBytes(b)
           [] value.t \in {"number", "boolean"} -> Unset
    ELSE WString(JsString(value))

\* MessageType.fromObject(d): the message, or ConvertError
FromObject(type, d) ==
    LET fields == FieldsOf(type)
        m == [i \in 1..Len(fields) |->
                FromObjectField(fields[i], PropertyGet(d, fields[i].name))]
    IN  IF \E i \in 1..Len(fields) : m[i] = ConvertError THEN ConvertError ELSE m

-----------------------------------------------------------------------------
(* The path-type resolver.  A node path is a sequence of characters; a     *)
(* type name is a sequence of name and "." tokens; no type is <<>>.        *)

NoType == <<>>

StartsWith(s, prefix) == IsPrefixOf(prefix, s)

\* zkPathTypeMap.get(segment) || null, for the table as a sequence of
\* [segment, type] with distinct segments
MapGet(map, segment) ==
    IF \E i \in 1..Len(map) : map[i].segment = segment
    THEN map[CHOOSE i \in 1..Len(map) : map[i].segment = segment].type
    ELSE NoType

\* zkPathTypeMap.set(segment, type)
MapSet(map, segment, type) ==
    IF \E i \in 1..Len(map) : map[i].segment = segment
    THEN [i \in 1..Len(map) |->
            IF map[i].segment = segment THEN [segment |-> segment, type |-> type]
            ELSE map[i]]
    ELSE Append(map, [segment |-> segment, type |-> type])

RECURSIVE ParseTypeMap(_)
\* the forEach over the entries of ZK_PATH_TYPE_MAP, split at ':'
ParseTypeMap(entries) ==
    IF entries = <<>> THEN <<>>
    ELSE LET m == ParseTypeMap(SubSeq(entries, 1, Len(entries) - 1))
             e == entries[Len(entries)]
         IN  IF e.segment # "" /\ e.type # NoType THEN MapSet(m, e.segment, e.type)
             ELSE m

\* as getMessageTypeForPath, but a path outside the root prefix is not mapped
getMessageTypeForPath_RootOnly(zkPath) ==
    IF zkPath = <<>> \/ Len(zkPathTypeMap) = 0 THEN NoType
    ELSE IF ZK_ROOT_PATH # <<>> /\ ~StartsWith(zkPath, ZK_ROOT_PATH) THEN NoType
    ELSE LET relativePath == SubSeq(zkPath, Len(ZK_ROOT_PATH) + 1, Len(zkPath))
             segments == SelectSeq(Split(relativePath, "/"), LAMBDA x : x # "")
         IN  IF Len(segments) = 0 THEN NoType
             ELSE MapGet(zkPathTypeMap, segments[1])

\* as getMessageTypeForPath, but any segment of the path may match
getMessageTypeForPath_AnySegment(zkPath) ==
    IF zkPath = <<>> \/ Len(zkPathTypeMap) = 0 THEN NoType
    ELSE LET relativePath ==
                 IF ZK_ROOT_PATH # <<>> /\ StartsWith(zkPath, ZK_ROOT_PATH)
                 THEN SubSeq(zkPath, Len(ZK_ROOT_PATH) + 1, Len(zkPath))
                 ELSE zkPath
             segments == SelectSeq(Split(relativePath, "/"), LAMBDA x : x # "")
             mapped == SelectSeq(segments, LAMBDA x : MapGet(zkPathTypeMap, x) # NoType)
         IN  IF Len(mapped) = 0 THEN NoType
             ELSE MapGet(zkPathTypeMap, mapped[1])

getMessageTypeForPath(zkPath) ==
    IF zkPath = <<>> \/ Len(zkPathTypeMap) = 0 THEN NoType
    ELSE LET relativePath ==
                 IF ZK_ROOT_PATH # <<>> /\ StartsWith(zkPath, ZK_ROOT_PATH)
                 THEN SubSeq(zkPath, Len(ZK_ROOT_PATH) + 1, Len(zkPath))
                 ELSE zkPath
             segments == SelectSeq(Split(relativePath, "/"), LAMBDA x : x # "")
         IN  IF Len(segments) = 0 THEN NoType
             ELSE MapGet(zkPathTypeMap, segments[1])

RECURSIVE Find(_, _)
\* pathMappings.find(m => path.startsWith(m.path)): the index, 0 for none
Find(mappings, path) ==
    IF mappings = <<>> THEN 0
    ELSE IF StartsWith(path, mappings[1].path) THEN 1
    ELSE LET i == Find(Tail(mappings), path) IN IF i = 0 THEN 0 ELSE i + 1

\* as the prefix strategy, but the longest matching prefix wins
pathMappingType_Longest(path) ==
    LET hits == {i \in 1..Len(pathMappings) : StartsWith(path, pathMappings[i].path)}
    IN  IF hits = {} THEN NoType
        ELSE pathMappings[CHOOSE i \in hits :
                 \A j \in hits : Len(pathMappings[j].path) < Len(pathMappings[i].path)
                                 \/ (Len(pathMappings[j].path) = Len(pathMappings[i].path)
                                     /\ i <= j)].type

\* the prefix strategy of the decode handler: const mapping =
\* pathMappings.find(...); if (mapping) typeName = mapping.type
pathMappingType(path) ==
    LET i == Find(pathMappings, path)
    IN  IF i = 0 THEN NoType ELSE pathMappings[i].type

-----------------------------------------------------------------------------
(* The codec endpoints.                                                    *)

NoReq == [sent |-> FALSE]
NoResp == [status |-> 0]
NotCalled == [t |-> "not called"]

ErrorResp(status, message, arg) == [status |-> status, error |-> message, arg |-> arg]

\* 2^7, 2^14, ..., 2^63: the least values whose varint takes one byte more
VarintLimits ==
    << IntToDec(2 ^ 7), IntToDec(2 ^ 14), IntToDec(2 ^ 21), IntToDec(2 ^ 28),
       <<"3","4","3","5","9","7","3","8","3","6","8">>,
       <<"4","3","9","8","0","4","6","5","1","1","1","0","4">>,
       <<"5","6","2","9","4","9","9","5","3","4","2","1","3","1","2">>,
       Binades[4], TwoTo63 >>

\* bytes of the varint of a 64-bit value, 7 bits a byte
VarintLen(bits) ==
    1 + Cardinality({n \in 1..Len(VarintLimits) : DecLE(VarintLimits[n], bits)})

\* buffer.length: a tag byte, then a varint, or a length byte and the octets
\* (texts of the model are ASCII and shorter than 128)
RECURSIVE ByteLength(_)
ByteLength(payload) ==
    IF payload = <<>> THEN 0
    ELSE LET v == payload[1].v
         IN  1 + (IF v.k = "long"
                  THEN VarintLen(v.bits)
                  ELSE IF v.k = "string" THEN 1 + Len(v.s)
                  ELSE 1 + Len(v.b))
             + ByteLength(Tail(payload))

\* as the decode handler, but the type of the path is preferred to the
\* explicit one
DecodeResponse_PathFirst(dataHex, messageType, path) ==
    IF dataHex = <<>> THEN ErrorResp(400, "No data provided", <<>>)
    ELSE LET fromPath == IF path # <<>> THEN getMessageTypeForPath(path) ELSE NoType
             typeName == IF fromPath # NoType THEN fromPath ELSE messageType
         IN  IF typeName = NoType THEN ErrorResp(400, "No message type specified", <<>>)
             ELSE LET MessageType == lookupType(protoRoot, typeName)
                  IN  IF MessageType = NotFound
                      THEN ErrorResp(500, "no such type: ", typeName)
                      ELSE [status |-> 200,
                            decoded |-> ToObject(MessageType,
                                                 DecodeMessage(MessageType, dataHex)),
                            messageType |-> typeName]

\* the response of POST /api/decode to the body {dataHex, messageType, path}
DecodeResponse(dataHex, messageType, path) ==
    IF dataHex = <<>> THEN ErrorResp(400, "No data provided", <<>>)
    ELSE LET typeName == IF messageType = NoType /\ path # <<>>
                         THEN getMessageTypeForPath(path)
                         ELSE messageType
         IN  IF typeName = NoType THEN ErrorResp(400, "No message type specified", <<>>)
             ELSE LET MessageType == lookupType(protoRoot, typeName)
                  IN  IF MessageType = NotFound
                      THEN ErrorResp(500, "no such type: ", typeName)
                      ELSE IF \E i \in 1..Len(dataHex) : dataHex[i].v = WTruncated
                      THEN ErrorResp(500, "index out of range", <<>>)
                      ELSE [status |-> 200,
                            decoded |-> ToObject(MessageType,
                                                 DecodeMessage(MessageType, dataHex)),
                            messageType |-> typeName]

\* as the decode handler, but an explicit type is remembered for the last
\* segment of the path
Decode_Learning(dataHex, messageType, path) ==
    /\ listening
    /\ decodeReq' = [sent |-> TRUE, dataHex |-> dataHex, messageType |-> messageType,
                     path |-> path]
    /\ decodeResp' = DecodeResponse(dataHex, messageType, path)
    /\ encodeReq' = NoReq
    /\ convertedData' = NotCalled
    /\ encodeResp' = NoResp
    /\ zkPathTypeMap' = IF messageType # NoType /\ path # <<>>
                        THEN MapSet(zkPathTypeMap, path[Len(path)], messageType)
                        ELSE zkPathTypeMap
    /\ UNCHANGED <<ZK_ROOT_PATH, pathMappings, PROTO_IMPORT_PREFIX, READ_ONLY>>
    /\ UNCHANGED extraVars
    /\ UNCHANGED <<loaderVars, normVars, resolveVars>>
    /\ UNCHANGED <<importVars, statVars, nodeVars>>

\* app.post('/api/decode')
Decode(dataHex, messageType, path) ==
    /\ listening
    /\ decodeReq' = [sent |-> TRUE, dataHex |-> dataHex, messageType |-> messageType,
                     path |-> path]
    /\ decodeResp' = DecodeResponse(dataHex, messageType, path)
    \* the record of the encode request belongs to the previous round trip
    /\ encodeReq' = NoReq
    /\ convertedData' = NotCalled
    /\ encodeResp' = NoResp
    /\ UNCHANGED extraVars
    /\ UNCHANGED <<loaderVars, normVars, configVars, resolveVars>>
    /\ UNCHANGED <<importVars, statVars, nodeVars>>

\* as the encode handler, but a failed conversion answers with the error
\* and the buffer of an empty message
EncodeResult_PartialBuffer(data, messageType) ==
    IF ~Truthy(data)
    THEN [resp |-> ErrorResp(400, "No data provided", <<>>), converted |-> NotCalled]
    ELSE IF messageType = NoType
    THEN [resp |-> ErrorResp(400, "No message type specified", <<>>),
          converted |-> NotCalled]
    ELSE LET MessageType == lookupType(protoRoot, messageType)
         IN  IF MessageType = NotFound
             THEN [resp |-> ErrorResp(500, "no such type: ", messageType),
                   converted |-> NotCalled]
             ELSE LET converted == convertStringNumbers(data)
                      message   == FromObject(MessageType, converted)
                  IN  IF message = ConvertError
                      THEN [resp |-> [status |-> 500, error |-> "conversion failed",
                                      arg |-> <<>>, dataHex |-> <<>>, size |-> 0],
                            converted |-> converted]
                      ELSE LET buffer == EncodeMessage(MessageType, message,
                                                       Len(FieldsOf(MessageType)))
                           IN  [resp |-> [status |-> 200, dataHex |-> buffer,
                                          size |-> ByteLength(buffer)],
                                converted |-> converted]

\* app.post('/api/encode'): the response to the body {data, messageType},
\* and the handler's convertedData
EncodeResult(data, messageType) ==
    IF ~Truthy(data)
    THEN [resp |-> ErrorResp(400, "No data provided", <<>>), converted |-> NotCalled]
    ELSE IF messageType = NoType
    THEN [resp |-> ErrorResp(400, "No message type specified", <<>>),
          converted |-> NotCalled]
    ELSE LET MessageType == lookupType(protoRoot, messageType)
         IN  IF MessageType = NotFound
             THEN [resp |-> ErrorResp(500, "no such type: ", messageType),
                   converted |-> NotCalled]
             ELSE LET converted == convertStringNumbers(data)
                      message   == FromObject(MessageType, converted)
                  IN  IF message = ConvertError
                      THEN [resp |-> ErrorResp(500, "conversion failed", <<>>),
                            converted |-> converted]
                      ELSE LET buffer == EncodeMessage(MessageType, message,
                                                       Len(FieldsOf(MessageType)))
                           IN  [resp |-> [status |-> 200, dataHex |-> buffer,
                                          size |-> ByteLength(buffer)],
                                converted |-> converted]

Encode(data, messageType) ==
    /\ listening
    /\ encodeReq' = [sent |-> TRUE, data |-> data, messageType |-> messageType]
    /\ convertedData' = EncodeResult(data, messageType).converted
    /\ encodeResp' = EncodeResult(data, messageType).resp
    /\ UNCHANGED <<decodeReq, decodeResp>>
    /\ UNCHANGED extraVars
    /\ UNCHANGED <<loaderVars, normVars, configVars, resolveVars>>
    /\ UNCHANGED <<importVars, statVars, nodeVars>>

-----------------------------------------------------------------------------
(* protoRoot.resolvePath, the import resolver loadProtos installs.  A path *)
(* is a sequence of tokens: "/" and the names between the separators.      *)

\* const PROTO_DIR
PROTO_DIR == <<"/", "protos">>

\* const GOOGLE_PROTOS_DIR
GOOGLE_PROTOS_DIR == <<"/", "app", "/", "google-protos">>

\* dirname(require.resolve('protobufjs'))
ProtobufjsDir == <<"/", "node_modules", "/", "protobufjs">>

RECURSIVE NormalizeSegments(_, _, _)
\* path.normalize: "." and empty segments go, ".." removes the segment
\* before it, and stays only in front of a relative path
NormalizeSegments(segs, res, allowAboveRoot) ==
    IF segs = <<>> THEN res
    ELSE IF segs[1] = "" \/ segs[1] = "."
    THEN NormalizeSegments(Tail(segs), res, allowAboveRoot)
    ELSE IF segs[1] = ".."
    THEN IF res # <<>> /\ Last(res) # ".."
         THEN NormalizeSegments(Tail(segs), SubSeq(res, 1, Len(res) - 1), allowAboveRoot)
         ELSE IF allowAboveRoot
         THEN NormalizeSegments(Tail(segs), Append(res, ".."), allowAboveRoot)
         ELSE NormalizeSegments(Tail(segs), res, allowAboveRoot)
    ELSE NormalizeSegments(Tail(segs), Append(res, segs[1]), allowAboveRoot)

\* the segments with "/" between them
JoinSegments(segs) ==
    [i \in 1..(2 * Len(segs) - 1) |-> IF i % 2 = 1 THEN segs[(i + 1) \div 2] ELSE "/"]

\* path.normalize(path)
normalize(path) ==
    IF path = <<>> THEN <<".">>
    ELSE LET isAbsolute == path[1] = "/"
             trailingSeparator == Last(path) = "/"
             segs == NormalizeSegments(Split(path, "/"), <<>>, ~isAbsolute)
         IN  IF segs = <<>>
             THEN (IF isAbsolute THEN <<"/">>
                   ELSE IF trailingSeparator THEN <<".", "/">> ELSE <<".">>)
             ELSE (IF isAbsolute THEN <<"/">> ELSE <<>>)
                  \o JoinSegments(segs)
                  \o (IF trailingSeparator THEN <<"/">> ELSE <<>>)

\* path.join(a, b): the non-empty arguments joined by "/", normalized
join(a, b) ==
    IF a = <<>> THEN normalize(b)
    ELSE IF b = <<>> THEN normalize(a)
    ELSE normalize(a \o <<"/">> \o b)

\* path.dirname(path)
dirname(path) ==
    IF path = <<>> THEN <<".">>
    ELSE LET ends == {k \in 1..Len(path) : path[k] # "/"}
         IN  IF ends = {} THEN <<"/">>
             ELSE LET last == CHOOSE k \in ends : \A j \in ends : j <= k
                      seps == {k \in 2..last : path[k] = "/"}
                  IN  IF seps = {} THEN (IF path[1] = "/" THEN <<"/">> ELSE <<".">>)
                      ELSE LET end == CHOOSE k \in seps : \A j \in seps : j <= k
                           IN  IF end = 2 /\ path[1] = "/" THEN <<"/", "/">>
                               ELSE SubSeq(path, 1, end - 1)

\* as protoRoot.resolvePath, but an import from a file resolves against the
\* directory of that file before the import prefix is tried
protoRoot_resolvePath_OriginFirst(origin, target) ==
    IF StartsWith(target, <<"/">>) THEN target
    ELSE IF StartsWith(target, <<"google", "/", "protobuf", "/">>)
    THEN join(ProtobufjsDir, target)
    ELSE IF StartsWith(target, <<"google", "/", "api", "/">>)
    THEN join(GOOGLE_PROTOS_DIR, target)
    ELSE IF origin # <<>> THEN join(dirname(origin), target)
    ELSE IF PROTO_IMPORT_PREFIX # <<>> /\ StartsWith(target, PROTO_IMPORT_PREFIX)
    THEN join(PROTO_DIR, SubSeq(target, Len(PROTO_IMPORT_PREFIX) + 1, Len(target)))
    ELSE join(PROTO_DIR, target)

\* protoRoot.resolvePath = (origin, target) => ...
protoRoot_resolvePath(origin, target) ==
    IF StartsWith(target, <<"/">>) THEN target
    ELSE IF StartsWith(target, <<"google", "/", "protobuf", "/">>)
    THEN join(ProtobufjsDir, target)
    ELSE IF StartsWith(target, <<"google", "/", "api", "/">>)
    THEN join(GOOGLE_PROTOS_DIR, target)
    ELSE IF PROTO_IMPORT_PREFIX # <<>> /\ StartsWith(target, PROTO_IMPORT_PREFIX)
    THEN join(PROTO_DIR, SubSeq(target, Len(PROTO_IMPORT_PREFIX) + 1, Len(target)))
    ELSE IF origin # <<>> THEN join(dirname(origin), target)
    ELSE join(PROTO_DIR, target)

NoImport == <<"not called">>

\* the library calls the resolver for an import statement
ResolveImport(origin, target) ==
    /\ importOrigin' = origin
    /\ importTarget' = target
    /\ importOut' = protoRoot_resolvePath(origin, target)
    /\ UNCHANGED extraVars
    /\ UNCHANGED <<loaderVars, codecVars, normVars, configVars, resolveVars,
                   statVars, nodeVars>>

-----------------------------------------------------------------------------
(* formatStat.  A raw field is a JSON value (a number, a string, null,     *)
(* undefined when missing), a Buffer, a long-integer wrapper object whose  *)
(* toString gives the decimal text, or another object.                     *)

\* a Buffer of the given octets
RBuffer(bytes) == [t |-> "buffer", bytes |-> bytes]

\* a long-integer wrapper object
RLong(neg, digits) == [t |-> "Long", neg |-> neg, digits |-> digits]

\* another object: toString is "plain" (Object.prototype.toString),
\* "throws" or "absent" (an object without prototype)
RObject(toStr) == [t |-> "opaque", toStr |-> toStr]

\* an exception left the expression
Thrown == [t |-> "thrown"]

NaN == [t |-> "NaN"]

RECURSIVE MulAddFrom(_, _, _, _)
\* the digits of ds * m + carry * 10^(p - 1) from place p up
MulAddFrom(ds, m, carry, p) ==
    IF p > Len(ds) THEN (IF carry = 0 THEN <<>> ELSE IntToDec(carry))
    ELSE Append(MulAddFrom(ds, m, (DigitAt(ds, p) * m + carry) \div 10, p + 1),
                DigitChar((DigitAt(ds, p) * m + carry) % 10))

RECURSIVE BytesToDec(_)
\* the unsigned big-endian value of the octets
BytesToDec(bytes) ==
    IF bytes = <<>> THEN <<"0">>
    ELSE StripZeros(MulAddFrom(BytesToDec(SubSeq(bytes, 1, Len(bytes) - 1)), 256,
                               bytes[Len(bytes)], 1))

\* buf.readBigInt64BE(): the first eight octets as a signed integer; a
\* shorter buffer throws a RangeError
readBigInt64BE(buf) ==
    IF Len(buf.bytes) < 8 THEN Thrown
    ELSE LET u == BytesToDec(SubSeq(buf.bytes, 1, 8))
         IN  IF buf.bytes[1] >= 128
             THEN [t |-> "bigint", neg |-> TRUE, digits |-> DecSub(TwoTo64, u)]
             ELSE [t |-> "bigint", neg |-> FALSE, digits |-> u]

\* the decimal text of a signed integer
SignedText(neg, digits) == (IF neg THEN <<"-">> ELSE <<>>) \o digits

\* const toString = (val) => ..., the helper of formatStat
toString(val) ==
    IF val.t = "NaN" \/ ~Truthy(val) THEN <<"0">>
    ELSE IF val.t = "buffer"
    THEN LET bigint == readBigInt64BE(val)
         IN  IF bigint = Thrown THEN <<"0">>
             ELSE SignedText(bigint.neg, bigint.digits)
    ELSE IF val.t = "Long" THEN SignedText(val.neg, val.digits)
    ELSE IF val.t = "opaque"
    THEN (IF val.toStr = "plain" THEN <<"[object Object]">> ELSE <<"0">>)
    ELSE JsString(val)

\* Number(x) for the integer x: the nearest double
IntegerToNumber(neg, digits) ==
    JNum(neg, IF DecLess(TwoTo53, digits) THEN RoundToDouble(digits) ELSE digits, <<>>)

\* 8.64e15, the largest time value of a Date
MaxTimeValue == <<"8","6","4","0","0","0","0","0","0","0","0","0","0","0","0","0">>

\* the text new Date(ms).toISOString() gives for the instant ms: the text
\* and the instant determine each other
IsoString(ms) == [t |-> "ISO-8601", ms |-> ms]

\* new Date(val).toISOString() without the test for an unset value
formatDate_Unchecked(val) ==
    IF val.t = "number" /\ ~val.neg /\ ~DecLess(MaxTimeValue, val.int)
    THEN IsoString(val.int)
    ELSE JNull

\* const formatDate = (val) => ..., the helper of formatStat; a string of
\* the model is no date text
formatDate(val) ==
    LET num == IF val.t = "buffer"
               THEN LET bigint == readBigInt64BE(val)
                    IN  IF bigint = Thrown THEN Thrown
                        ELSE IntegerToNumber(bigint.neg, bigint.digits)
               ELSE IF val.t = "Long" THEN IntegerToNumber(val.neg, val.digits)
               ELSE IF val.t = "null" THEN JNum(FALSE, <<"0">>, <<>>)
               ELSE IF val.t = "opaque"
               THEN (IF val.toStr = "plain" THEN NaN ELSE Thrown)
               ELSE val
    IN  IF num = Thrown THEN JNull
        ELSE IF num.t = "NaN" \/ ~Truthy(num) THEN JNull
        ELSE IF num.t = "number"
        THEN IF num.neg THEN JNull
             ELSE IF DecLess(MaxTimeValue, num.int) THEN JNull
             ELSE IsoString(num.int)
        ELSE IF num.t = "boolean" THEN IsoString(<<"1">>)
        ELSE JNull

\* the 64-bit fields of a stat record, and a field passed through
IdFields == {"czxid", "mzxid", "ephemeralOwner", "pzxid"}

TimeFields == {"ctime", "mtime"}

\* formatStat(stat): reading a field of null or undefined throws
formatStat(stat) ==
    IF stat.t \in {"null", "undefined"} THEN Thrown
    ELSE [t |-> "metadata",
          czxid |-> JStr(toString(stat.czxid)),
          mzxid |-> JStr(toString(stat.mzxid)),
          ctime |-> formatDate(stat.ctime),
          mtime |-> formatDate(stat.mtime),
          version |-> stat.version,
          ephemeralOwner |-> JStr(toString(stat.ephemeralOwner)),
          pzxid |-> JStr(toString(stat.pzxid))]

\* formatStat(stat) is called, as GET /api/node does
FormatStat ==
    /\ statOut = NotCalled
    /\ statOut' = formatStat(statIn)
    /\ UNCHANGED extraVars
    /\ UNCHANGED <<statIn, loaderVars, codecVars, normVars, configVars, resolveVars,
                   importVars, nodeVars>>

-----------------------------------------------------------------------------
(* The ZooKeeper connection and the write endpoints.  zkOps collects the   *)
(* operations the handlers issue to the client, as [op, path, data].       *)

ZkOp(op, path, data) == [op |-> op, path |-> path, data |-> data]

\* zkClient.on('connected', ...)
ZkConnected ==
    /\ listening
    /\ zkConnected' = TRUE
    /\ UNCHANGED <<zkOps, nodeResp>>
    /\ UNCHANGED extraVars
    /\ UNCHANGED <<loaderVars, codecVars, normVars, configVars, resolveVars,
                   importVars, statVars>>

\* zkClient.on('disconnected', ...) and zkClient.on('expired', ...)
ZkDisconnected ==
    /\ listening
    /\ zkConnected' = FALSE
    /\ UNCHANGED <<zkOps, nodeResp>>
    /\ UNCHANGED extraVars
    /\ UNCHANGED <<loaderVars, codecVars, normVars, configVars, resolveVars,
                   importVars, statVars>>

\* as the PUT handler, but without the read-only test
PutResult_Writable(path, data, dataHex, exists, fails) ==
    IF ~zkConnected
    THEN [resp |-> ErrorResp(503, "Not connected to Zookeeper", <<>>), ops |-> {}]
    ELSE IF path = <<>>
    THEN [resp |-> ErrorResp(400, "Path is required", <<>>), ops |-> {}]
    ELSE LET buffer == IF dataHex # <<>> THEN dataHex ELSE data
             write  == ZkOp(IF exists THEN "setData" ELSE "create", path, buffer)
         IN  IF fails = "exists"
             THEN [resp |-> ErrorResp(500, "zookeeper error", <<>>),
                   ops |-> {ZkOp("exists", path, <<>>)}]
             ELSE IF fails = "write"
             THEN [resp |-> ErrorResp(500, "zookeeper error", <<>>),
                   ops |-> {ZkOp("exists", path, <<>>), write}]
             ELSE [resp |-> [status |-> 200, success |-> TRUE,
                             action |-> IF exists THEN "updated" ELSE "created"],
                   ops |-> {ZkOp("exists", path, <<>>), write}]

\* app.put('/api/node'): the response to the body {path, data, dataHex} and
\* the operations issued; exists is what zkExists finds, fails the
\* operation ZooKeeper rejects ("none", "exists" or "write")
PutResult(path, data, dataHex, exists, fails) ==
    IF READ_ONLY
    THEN [resp |-> ErrorResp(403, "Server is in read-only mode", <<>>), ops |-> {}]
    ELSE IF ~zkConnected
    THEN [resp |-> ErrorResp(503, "Not connected to Zookeeper", <<>>), ops |-> {}]
    ELSE IF path = <<>>
    THEN [resp |-> ErrorResp(400, "Path is required", <<>>), ops |-> {}]
    ELSE LET buffer == IF dataHex # <<>> THEN dataHex ELSE data
             write  == ZkOp(IF exists THEN "setData" ELSE "create", path, buffer)
         IN  IF fails = "exists"
             THEN [resp |-> ErrorResp(500, "zookeeper error", <<>>),
                   ops |-> {ZkOp("exists", path, <<>>)}]
             ELSE IF fails = "write"
             THEN [resp |-> ErrorResp(500, "zookeeper error", <<>>),
                   ops |-> {ZkOp("exists", path, <<>>), write}]
             ELSE [resp |-> [status |-> 200, success |-> TRUE,
                             action |-> IF exists THEN "updated" ELSE "created"],
                   ops |-> {ZkOp("exists", path, <<>>), write}]

Put(path, data, dataHex, exists, fails) ==
    /\ listening
    /\ nodeResp' = PutResult(path, data, dataHex, exists, fails).resp
    /\ zkOps' = zkOps \cup PutResult(path, data, dataHex, exists, fails).ops
    /\ UNCHANGED zkConnected
    /\ UNCHANGED extraVars
    /\ UNCHANGED <<loaderVars, codecVars, normVars, configVars, resolveVars,
                   importVars, statVars>>

\* as the DELETE handler, but only a missing path is invalid
DeleteResult_RootAllowed(path, fails) ==
    IF READ_ONLY
    THEN [resp |-> ErrorResp(403, "Server is in read-only mode", <<>>), ops |-> {}]
    ELSE IF ~zkConnected
    THEN [resp |-> ErrorResp(503, "Not connected to Zookeeper", <<>>), ops |-> {}]
    ELSE IF path = <<>>
    THEN [resp |-> ErrorResp(400, "Invalid path", <<>>), ops |-> {}]
    ELSE IF fails
    THEN [resp |-> ErrorResp(500, "zookeeper error", <<>>),
          ops |-> {ZkOp("remove", path, <<>>)}]
    ELSE [resp |-> [status |-> 200, success |-> TRUE],
          ops |-> {ZkOp("remove", path, <<>>)}]

\* app.delete('/api/node'): the response to ?path= and the operations issued
DeleteResult(path, fails) ==
    IF READ_ONLY
    THEN [resp |-> ErrorResp(403, "Server is in read-only mode", <<>>), ops |-> {}]
    ELSE IF ~zkConnected
    THEN [resp |-> ErrorResp(503, "Not connected to Zookeeper", <<>>), ops |-> {}]
    ELSE IF path = <<>> \/ path = <<"/">>
    THEN [resp |-> ErrorResp(400, "Invalid path", <<>>), ops |-> {}]
    ELSE IF fails
    THEN [resp |-> ErrorResp(500, "zookeeper error", <<>>),
          ops |-> {ZkOp("remove", path, <<>>)}]
    ELSE [resp |-> [status |-> 200, success |-> TRUE],
          ops |-> {ZkOp("remove", path, <<>>)}]

Delete(path, fails) ==
    /\ listening
    /\ nodeResp' = DeleteResult(path, fails).resp
    /\ zkOps' = zkOps \cup DeleteResult(path, fails).ops
    /\ UNCHANGED zkConnected
    /\ UNCHANGED extraVars
    /\ UNCHANGED <<loaderVars, codecVars, normVars, configVars, resolveVars,
                   importVars, statVars>>

-----------------------------------------------------------------------------
(* The read endpoints.  A tree is what ZooKeeper answers to getChildren:   *)
(* one record for every path, with the names of the children in the order  *)
(* they are returned, or readable = FALSE where the call fails (a node     *)
(* that is gone or that the client may not read).                          *)

TreeNode(path, readable, children) ==
    [path |-> path, readable |-> readable, children |-> children]

NoTree == {}

\* the client has not looked for the type of a path
NoPreview == [called |-> FALSE, type |-> NoType]

ChildrenAt(tree, path) == CHOOSE n \in tree : n.path = path

\* const maxResults = 100
maxResults == 100

\* String.prototype.toLowerCase on the letters of the model
toLowerCase(s) ==
    [i \in 1..Len(s) |-> IF s[i] = "A" THEN "a" ELSE IF s[i] = "B" THEN "b" ELSE s[i]]

\* String.prototype.includes
includes(s, sub) ==
    \E i \in 0..(Len(s) - Len(sub)) : SubSeq(s, i + 1, i + Len(sub)) = sub

\* const childPath = path === '/' ? `/${child}` : `${path}/${child}`
childPath(path, child) ==
    IF path = <<"/">> THEN <<"/">> \o child ELSE path \o <<"/">> \o child

\* the state of a search: const results, and the paths zkGetChildren was
\* called with, in the order of the calls
SearchState(results, calls) == [results |-> results, calls |-> calls]

RECURSIVE searchPath(_, _, _, _)
RECURSIVE searchChildren(_, _, _, _, _, _)

\* as searchPath, but the comparison keeps the case
searchPath_CaseSensitive(tree, pattern, path, st) ==
    IF Len(st.results) >= maxResults THEN st
    ELSE LET pushed == IF includes(path, pattern)
                       THEN SearchState(Append(st.results, path), Append(st.calls, path))
                       ELSE SearchState(st.results, Append(st.calls, path))
         IN  IF ChildrenAt(tree, path).readable
             THEN searchChildren(tree, pattern, path, ChildrenAt(tree, path).children, 1,
                                 pushed)
             ELSE pushed

\* async function searchPath(path): st is the search so far, the value is
\* the search after the call
searchPath(tree, pattern, path, st) ==
    IF Len(st.results) >= maxResults THEN st
    ELSE LET pushed == IF includes(toLowerCase(path), toLowerCase(pattern))
                       THEN SearchState(Append(st.results, path), Append(st.calls, path))
                       ELSE SearchState(st.results, Append(st.calls, path))
         IN  IF ChildrenAt(tree, path).readable
             THEN searchChildren(tree, pattern, path, ChildrenAt(tree, path).children, 1,
                                 pushed)
             ELSE pushed

\* for (const child of children), from the i-th child on
searchChildren(tree, pattern, path, children, i, st) ==
    IF i > Len(children) \/ Len(st.results) >= maxResults THEN st
    ELSE searchChildren(tree, pattern, path, children, i + 1,
                        searchPath(tree, pattern, childPath(path, children[i]), st))

\* as the search handler, but without the connection test
SearchResult_Unguarded(pattern, tree) ==
    IF pattern = <<>>
    THEN [resp |-> [status |-> 200, results |-> <<>>], ops |-> {}]
    ELSE LET st == searchPath(tree, pattern, <<"/">>, SearchState(<<>>, <<>>))
         IN  [resp |-> [status |-> 200, results |-> st.results],
              ops |-> {ZkOp("getChildren", st.calls[i], <<>>) : i \in 1..Len(st.calls)}]

\* app.get('/api/search'): the response to ?pattern= over the tree and the
\* operations issued
SearchResult(pattern, tree) ==
    IF ~zkConnected
    THEN [resp |-> ErrorResp(503, "Not connected to Zookeeper", <<>>), ops |-> {}]
    ELSE IF pattern = <<>>
    THEN [resp |-> [status |-> 200, results |-> <<>>], ops |-> {}]
    ELSE LET st == searchPath(tree, pattern, <<"/">>, SearchState(<<>>, <<>>))
         IN  [resp |-> [status |-> 200, results |-> st.results],
              ops |-> {ZkOp("getChildren", st.calls[i], <<>>) : i \in 1..Len(st.calls)}]

ReadFrame ==
    UNCHANGED <<loaderVars, codecVars, normVars, configVars, resolveVars, importVars,
                statVars, zkConnected, raceVars, viewVars, filterVars, connVars>>

Search(pattern, tree) ==
    /\ listening
    /\ searchTree' = tree
    /\ searchPattern' = pattern
    /\ nodeResp' = SearchResult(pattern, tree).resp
    /\ zkOps' = zkOps \cup SearchResult(pattern, tree).ops
    /\ UNCHANGED clientAutoType
    /\ ReadFrame

\* app.get('/api/node'): the response to ?path= and the operations issued;
\* fails is the operation ZooKeeper rejects, if any
GetNodeResult(path, fails) ==
    IF ~zkConnected
    THEN [resp |-> ErrorResp(503, "Not connected to Zookeeper", <<>>), ops |-> {}]
    ELSE LET p == IF path = <<>> THEN <<"/">> ELSE path
         IN  IF fails = "getData"
             THEN [resp |-> ErrorResp(500, "zookeeper error", <<>>),
                   ops |-> {ZkOp("getData", p, <<>>)}]
             ELSE IF fails = "getChildren"
             THEN [resp |-> ErrorResp(500, "zookeeper error", <<>>),
                   ops |-> {ZkOp("getData", p, <<>>), ZkOp("getChildren", p, <<>>)}]
             ELSE IF fails = "getACL"
             THEN [resp |-> ErrorResp(500, "zookeeper error", <<>>),
                   ops |-> {ZkOp("getData", p, <<>>), ZkOp("getChildren", p, <<>>),
                            ZkOp("getACL", p, <<>>)}]
             ELSE [resp |-> [status |-> 200, path |-> p],
                   ops |-> {ZkOp("getData", p, <<>>), ZkOp("getChildren", p, <<>>),
                            ZkOp("getACL", p, <<>>)}]

GetNode(path, fails) ==
    /\ listening
    /\ nodeResp' = GetNodeResult(path, fails).resp
    /\ zkOps' = zkOps \cup GetNodeResult(path, fails).ops
    /\ UNCHANGED readVars
    /\ ReadFrame

\* app.get('/api/children'): the response to ?path= and the operations
\* issued; children are the names zkGetChildren resolves to when it does
GetChildrenResult(path, children, fails) ==
    IF ~zkConnected
    THEN [resp |-> ErrorResp(503, "Not connected to Zookeeper", <<>>), ops |-> {}]
    ELSE LET p == IF path = <<>> THEN <<"/">> ELSE path
         IN  IF fails
             THEN [resp |-> ErrorResp(500, "zookeeper error", <<>>),
                   ops |-> {ZkOp("getChildren", p, <<>>)}]
             ELSE [resp |-> [status |-> 200, path |-> p],
                   ops |-> {ZkOp("getChildren", p, <<>>)}
                           \cup {ZkOp("exists", childPath(p, children[i]), <<>>) :
                                    i \in 1..Len(children)}]

GetChildren(path, children, fails) ==
    /\ listening
    /\ nodeResp' = GetChildrenResult(path, children, fails).resp
    /\ zkOps' = zkOps \cup GetChildrenResult(path, children, fails).ops
    /\ UNCHANGED readVars
    /\ ReadFrame

\* app.get('/api/info') and app.get('/api/protos'): no ZooKeeper operation
InfoResult ==
    [resp |-> [status |-> 200, connected |-> zkConnected, readOnly |-> READ_ONLY],
     ops |-> {}]

ProtosResult ==
    [resp |-> [status |-> 200, messageTypes |-> messageTypes,
               zkRootPath |-> ZK_ROOT_PATH, zkPathTypeMappings |-> zkPathTypeMap],
     ops |-> {}]

GetInfo ==
    /\ listening
    /\ nodeResp' = InfoResult.resp
    /\ zkOps' = zkOps \cup InfoResult.ops
    /\ UNCHANGED readVars
    /\ ReadFrame

GetProtos ==
    /\ listening
    /\ nodeResp' = ProtosResult.resp
    /\ zkOps' = zkOps \cup ProtosResult.ops
    /\ UNCHANGED readVars
    /\ ReadFrame

-----------------------------------------------------------------------------
(* The write endpoints against a ZooKeeper tree.  The client sends the     *)
(* operations of all handlers on one session; ZooKeeper processes them in  *)
(* the order sent, and the callback of an operation runs the rest of its   *)
(* handler up to the next await.                                           *)

CallIds == 1..MaxInFlight

TreePaths == {<<"/", "a">>, <<"/", "b">>}

NoNode == [t |-> "no node"]

\* a node and its data
ZNode(data) == [t |-> "node", data |-> data]

NoCall == [kind |-> "none"]

\* a request in flight: pc is "exists", "write" or "done"; exists is what
\* zkExists resolved to, present whether the node was there when the write
\* reached ZooKeeper
Call(kind, path, buffer, pc, exists, present, resp) ==
    [kind |-> kind, path |-> path, buffer |-> buffer, pc |-> pc, exists |-> exists,
     present |-> present, resp |-> resp]

\* app.put('/api/node') up to await zkExists(path)
PutNodeBegin(id, path, data) ==
    /\ listening
    /\ nodeCalls[id] = NoCall
    /\ IF READ_ONLY \/ ~zkConnected \/ path = <<>>
       THEN /\ nodeCalls' = [nodeCalls EXCEPT ![id] =
                   Call("put", path, data, "done", FALSE, FALSE,
                        PutResult(path, data, <<>>, FALSE, "none").resp)]
            /\ UNCHANGED zkQueue
       ELSE /\ nodeCalls' = [nodeCalls EXCEPT ![id] =
                   Call("put", path, data, "exists", FALSE, FALSE, NoResp)]
            /\ zkQueue' = Append(zkQueue, [id |-> id, op |-> "exists"])
    /\ UNCHANGED <<zkTree, nodeVars, viewVars, filterVars, connVars, readVars>>
    /\ UNCHANGED <<loaderVars, codecVars, normVars, configVars, resolveVars,
                   importVars, statVars>>

\* app.delete('/api/node') up to await zkRemove(path)
DeleteNodeBegin(id, path) ==
    /\ listening
    /\ nodeCalls[id] = NoCall
    /\ IF READ_ONLY \/ ~zkConnected \/ path = <<>> \/ path = <<"/">>
       THEN /\ nodeCalls' = [nodeCalls EXCEPT ![id] =
                   Call("delete", path, <<>>, "done", FALSE, FALSE,
                        DeleteResult(path, FALSE).resp)]
            /\ UNCHANGED zkQueue
       ELSE /\ nodeCalls' = [nodeCalls EXCEPT ![id] =
                   Call("delete", path, <<>>, "write", FALSE, FALSE, NoResp)]
            /\ zkQueue' = Append(zkQueue, [id |-> id, op |-> "remove"])
    /\ UNCHANGED <<zkTree, nodeVars, viewVars, filterVars, connVars, readVars>>
    /\ UNCHANGED <<loaderVars, codecVars, normVars, configVars, resolveVars,
                   importVars, statVars>>

\* ZooKeeper processes the exists at the head of the queue; the handler
\* resumes and sends setData or create
ZkExistsDone ==
    /\ zkQueue # <<>>
    /\ Head(zkQueue).op = "exists"
    /\ LET id     == Head(zkQueue).id
           c      == nodeCalls[id]
           exists == zkTree[c.path] # NoNode
       IN  /\ nodeCalls' = [nodeCalls EXCEPT ![id] =
                  Call("put", c.path, c.buffer, "write", exists, FALSE, NoResp)]
           /\ zkQueue' = Append(Tail(zkQueue),
                                [id |-> id, op |-> IF exists THEN "setData" ELSE "create"])
    /\ UNCHANGED <<zkTree, nodeVars, viewVars, filterVars, connVars, readVars>>
    /\ UNCHANGED <<loaderVars, codecVars, normVars, configVars, resolveVars,
                   importVars, statVars>>

\* ZooKeeper processes the setData, create or remove at the head of the
\* queue: setData and remove of an absent node fail with NO_NODE, create of
\* a present one with NODE_EXISTS; the handler answers
ZkWriteDone ==
    /\ zkQueue # <<>>
    /\ Head(zkQueue).op \in {"setData", "create", "remove"}
    /\ LET id      == Head(zkQueue).id
           op      == Head(zkQueue).op
           c       == nodeCalls[id]
           present == zkTree[c.path] # NoNode
           ok      == IF op = "create" THEN ~present ELSE present
           resp    == IF ~ok
                      THEN ErrorResp(500, IF op = "create" THEN "NODE_EXISTS" ELSE "NO_NODE",
                                     <<>>)
                      ELSE IF op = "remove" THEN [status |-> 200, success |-> TRUE]
                      ELSE [status |-> 200, success |-> TRUE,
                            action |-> IF op = "setData" THEN "updated" ELSE "created"]
       IN  /\ nodeCalls' = [nodeCalls EXCEPT ![id] =
                  Call(c.kind, c.path, c.buffer, "done", c.exists, present, resp)]
           /\ zkTree' = IF ~ok THEN zkTree
                        ELSE IF op = "remove" THEN [zkTree EXCEPT ![c.path] = NoNode]
                        ELSE [zkTree EXCEPT ![c.path] = ZNode(c.buffer)]
           /\ zkQueue' = Tail(zkQueue)
    /\ UNCHANGED <<nodeVars, viewVars, filterVars, connVars, readVars>>
    /\ UNCHANGED <<loaderVars, codecVars, normVars, configVars, resolveVars,
                   importVars, statVars>>

-----------------------------------------------------------------------------
(* The client: NodeView and its DecodedTab.  A state change, the render    *)
(* that follows it and the effects of that render are one step.  The       *)
(* component has the answer of GET /api/protos: zkRootPath is ZK_ROOT_PATH *)
(* and zkPathTypeMappings holds the entries of zkPathTypeMap.              *)

\* the properties every plain object inherits from Object.prototype
ObjectPrototypeKeys ==
    {"constructor", "toString", "valueOf", "hasOwnProperty", "__proto__"}

\* what zkPathTypeMappings[key] gives when key is inherited: a function or
\* an object, no type name
InheritedValue == <<"[inherited]">>

\* zkPathTypeMappings[segment] || null on the object of the entries
MappingsGet(zkPathTypeMappings, segment) ==
    IF \E i \in 1..Len(zkPathTypeMappings) : zkPathTypeMappings[i].segment = segment
    THEN MapGet(zkPathTypeMappings, segment)
    ELSE IF segment \in ObjectPrototypeKeys THEN InheritedValue
    ELSE NoType

\* function getAutoTypeForPath(path, zkRootPath, zkPathTypeMappings), and
\* getAutoType of DecodedTab for node.path
getAutoTypeForPath(zkPath, zkRootPath, zkPathTypeMappings) ==
    IF Len(zkPathTypeMappings) = 0 THEN NoType
    ELSE LET relativePath ==
                 IF zkRootPath # <<>> /\ StartsWith(zkPath, zkRootPath)
                 THEN SubSeq(zkPath, Len(zkRootPath) + 1, Len(zkPath))
                 ELSE zkPath
             segments == SelectSeq(Split(relativePath, "/"), LAMBDA x : x # "")
         IN  IF Len(segments) > 0 THEN MappingsGet(zkPathTypeMappings, segments[1])
             ELSE NoType

\* the node GET /api/node returns for the path
NodeData(p) == [t |-> "node", path |-> p, dataHex |-> <<"bytes of">> \o p]

\* a decodeData call in flight: live while the DecodedTab that made it is
\* mounted
DecodeFetch(p, type, live) == [path |-> p, type |-> type, live |-> live]

\* NodeView renders the node and its tabs: no spinner, no error, a node
TabsShown(p, n, l, e) == p # <<>> /\ ~l /\ e = JNull /\ n # JNull

\* the DecodedTab is among what NodeView renders
TabMounted(p, n, l, e, tab) == TabsShown(p, n, l, e) /\ tab = "decoded"

\* The render after NodeView's state became (p, n, l, e) with the tab and
\* the decoded data given; set tells that setNode was called.  The effect on [node, path, ...] switches to the
\* Decoded tab when the node has data and the path has an auto type; a
\* DecodedTab that appears, or whose node changed, resets the decoded data
\* and starts the auto decode; one that disappears leaves its calls behind.
Render(p, n, set, l, e, tab, decoded, fetches) ==
    LET switch   == (set \/ p # viewPath) /\ n # JNull
                    /\ getAutoTypeForPath(p, ZK_ROOT_PATH, zkPathTypeMap) # NoType
        tab2     == IF switch THEN "decoded" ELSE tab
        before   == TabMounted(viewPath, viewNode, viewLoading, viewError, activeTab)
        after    == TabMounted(p, n, l, e, tab2)
        kept     == before /\ after
        effect   == after /\ (~before \/ n # viewNode)
        left     == IF kept THEN fetches
                    ELSE {DecodeFetch(f.path, f.type, FALSE) : f \in fetches}
        autoType == getAutoTypeForPath(n.path, ZK_ROOT_PATH, zkPathTypeMap)
    IN  /\ viewPath' = p
        /\ viewNode' = n
        /\ viewLoading' = l
        /\ viewError' = e
        /\ activeTab' = tab2
        /\ decodedData' = IF effect THEN JNull ELSE decoded
        /\ decodeFetches' = IF effect /\ autoType # NoType
                            THEN left \cup {DecodeFetch(n.path, autoType, TRUE)}
                            ELSE left
        /\ tabLoading' = IF effect /\ autoType # NoType THEN TRUE
                         ELSE IF kept THEN tabLoading
                         ELSE FALSE

ViewFrame ==
    UNCHANGED <<loaderVars, codecVars, normVars, configVars, resolveVars, importVars,
                statVars, nodeVars, raceVars, filterVars, connVars, readVars>>

\* the user selects a node: useEffect([path]) calls loadNode() and resets
\* the decoded data
SelectPath(p) ==
    /\ p # viewPath
    /\ p # <<>>
    /\ nodeFetches' = nodeFetches \cup {p}
    /\ Render(p, viewNode, FALSE, TRUE, JNull, activeTab, JNull, decodeFetches)
    /\ ViewFrame

\* handleRefresh and the Retry button: loadNode() for the selected path
Refresh ==
    /\ viewPath # <<>>
    /\ ~viewLoading
    /\ viewError # JNull \/ viewNode # JNull
    /\ nodeFetches' = nodeFetches \cup {viewPath}
    /\ Render(viewPath, viewNode, FALSE, TRUE, JNull, activeTab, decodedData,
              decodeFetches)
    /\ ViewFrame

\* getNode(p) resolves: setNode(data), setLoading(false)
GetNodeResolves(p) ==
    /\ p \in nodeFetches
    /\ nodeFetches' = nodeFetches \ {p}
    /\ Render(viewPath, NodeData(p), TRUE, FALSE, viewError, activeTab, decodedData,
              decodeFetches)
    /\ ViewFrame

\* getNode(p) rejects: setError(err.message), setLoading(false)
GetNodeRejects(p) ==
    /\ p \in nodeFetches
    /\ nodeFetches' = nodeFetches \ {p}
    /\ Render(viewPath, viewNode, FALSE, FALSE, JStr(<<"error">>), activeTab,
              decodedData,
              decodeFetches)
    /\ ViewFrame

\* the user clicks a tab
ClickTab(tab) ==
    /\ TabsShown(viewPath, viewNode, viewLoading, viewError)
    /\ tab # activeTab
    /\ UNCHANGED nodeFetches
    /\ Render(viewPath, viewNode, FALSE, viewLoading, viewError, tab, decodedData,
              decodeFetches)
    /\ ViewFrame

\* handleDecode of the DecodedTab, for the type picked in the select
HandleDecode(type) ==
    /\ TabMounted(viewPath, viewNode, viewLoading, viewError, activeTab)
    /\ ~tabLoading
    /\ decodeFetches' = decodeFetches \cup {DecodeFetch(viewNode.path, type, TRUE)}
    /\ tabLoading' = TRUE
    /\ UNCHANGED <<viewPath, viewNode, viewLoading, viewError, activeTab, decodedData,
                   nodeFetches>>
    /\ ViewFrame

\* decodeData resolves: setDecoded(result.decoded), onDecoded(result.decoded,
\* type), which is NodeView's handleDecoded, and setLoading(false) in the
\* DecodedTab when it is still the one mounted
DecodeResolves(f) ==
    /\ f \in decodeFetches
    /\ decodeFetches' = decodeFetches \ {f}
    /\ decodedData' = [t |-> "decoded", of |-> f.path, messageType |-> f.type]
    /\ tabLoading' = IF f.live THEN FALSE ELSE tabLoading
    /\ UNCHANGED <<viewPath, viewNode, viewLoading, viewError, activeTab, nodeFetches>>
    /\ ViewFrame

\* decodeData rejects: setError of the DecodedTab, setLoading(false)
DecodeRejects(f) ==
    /\ f \in decodeFetches
    /\ decodeFetches' = decodeFetches \ {f}
    /\ tabLoading' = IF f.live THEN FALSE ELSE tabLoading
    /\ UNCHANGED <<viewPath, viewNode, viewLoading, viewError, activeTab, decodedData,
                   nodeFetches>>
    /\ ViewFrame

-----------------------------------------------------------------------------
(* The client: the SearchBar that filters the tree.  A query is a text of  *)
(* characters; setQuery, the render and the effect on [query] are one step. *)

NoTimer == [t |-> "no timer"]

\* !query.trim()
IsBlank(q) == \A i \in 1..Len(q) : q[i] = " "

\* what GET /api/search answers for the query: the paths that contain it
SearchResults(q) ==
    IF q = <<"a">> THEN << <<"/", "x", "/", "a">>, <<"/", "a">> >>
    ELSE IF q = <<"b">> THEN << <<"/", "x", "/", "b">> >>
    ELSE <<>>

RECURSIVE AncestorsFrom(_, _, _)
\* for (const part of parts) { current += '/' + part; visiblePaths.add(current) }
AncestorsFrom(parts, n, current) ==
    IF n > Len(parts) THEN {}
    ELSE {current \o <<"/", parts[n]>>}
         \cup AncestorsFrom(parts, n + 1, current \o <<"/", parts[n]>>)

\* the set of visible paths built from the results: each path, its
\* ancestors and the root
VisiblePaths(results) ==
    {results[i] : i \in 1..Len(results)}
    \cup UNION {AncestorsFrom(SelectSeq(Split(results[i], "/"), LAMBDA x : x # ""),
                              1, <<>>) : i \in 1..Len(results)}
    \cup {<<"/">>}

Filter(paths) == [t |-> "filter", paths |-> paths]

FilterFrame ==
    UNCHANGED <<loaderVars, codecVars, normVars, configVars, resolveVars, importVars,
                statVars, nodeVars, raceVars, viewVars, connVars, readVars>>

\* the effect on [query]: the pending timer is cleared; an empty query
\* clears the filter, another one sets loading and starts the timer
QueryEffect(q) ==
    IF IsBlank(q)
    THEN /\ lastFilter' = JNull
         /\ debounceRef' = NoTimer
         /\ UNCHANGED filterLoading
    ELSE /\ filterLoading' = TRUE
         /\ debounceRef' = [t |-> "timer", query |-> q]
         /\ UNCHANGED lastFilter

\* onChange of the input: setQuery(e.target.value)
SetQuery(q) ==
    /\ q # query
    /\ query' = q
    /\ QueryEffect(q)
    /\ UNCHANGED searchFetches
    /\ FilterFrame

\* handleClear: setQuery(''), onFilterChange(null)
HandleClear ==
    /\ ~filterLoading
    /\ query # <<>>
    /\ query' = <<>>
    /\ QueryEffect(<<>>)
    /\ UNCHANGED searchFetches
    /\ FilterFrame

\* the timer fires after 300 ms: searchNodes(query) is called
TimerFires ==
    /\ debounceRef # NoTimer
    /\ searchFetches' = searchFetches \cup {debounceRef.query}
    /\ debounceRef' = NoTimer
    /\ UNCHANGED <<query, filterLoading, lastFilter>>
    /\ FilterFrame

\* searchNodes(q) resolves: onFilterChange(visiblePaths), setLoading(false)
SearchResolves(q) ==
    /\ q \in searchFetches
    /\ searchFetches' = searchFetches \ {q}
    /\ lastFilter' = Filter(VisiblePaths(SearchResults(q)))
    /\ filterLoading' = FALSE
    /\ UNCHANGED <<query, debounceRef>>
    /\ FilterFrame

\* searchNodes(q) rejects: onFilterChange(null), setLoading(false)
SearchRejects(q) ==
    /\ q \in searchFetches
    /\ searchFetches' = searchFetches \ {q}
    /\ lastFilter' = JNull
    /\ filterLoading' = FALSE
    /\ UNCHANGED <<query, debounceRef>>
    /\ FilterFrame

\* the client evaluates getAutoTypeForPath, and getAutoType of DecodedTab,
\* for the path p on what GET /api/protos published
Preview(p) ==
    /\ listening
    /\ viewPath' = p
    /\ clientAutoType' =
          [called |-> TRUE,
           type |-> getAutoTypeForPath(p, ProtosResult.resp.zkRootPath,
                                       ProtosResult.resp.zkPathTypeMappings)]
    /\ UNCHANGED <<viewNode, viewLoading, viewError, activeTab, decodedData, tabLoading,
                   nodeFetches, decodeFetches, searchTree, searchPattern>>
    /\ UNCHANGED <<loaderVars, codecVars, normVars, configVars, resolveVars, importVars,
                   statVars, nodeVars, raceVars, filterVars, connVars>>

-----------------------------------------------------------------------------
(* connectZk and the events of the ZooKeeper clients.  A client of the     *)
(* library is "connecting" after connect(), "connected" and "disconnected" *)
(* as its connection comes and goes, "expired" once its session is lost    *)
(* and "closed" after the socket of an expired session went; it reconnects *)
(* by itself while its session lives and reports every change to the       *)
(* listeners connectZk registered.                                         *)

Clients == 1..MaxClients

ConnFrame ==
    UNCHANGED <<loaderVars, codecVars, normVars, configVars, resolveVars, importVars,
                statVars, zkOps, nodeResp, raceVars, viewVars, filterVars, readVars>>

\* function connectZk(): a new client replaces zkClient and connect() is
\* called on it
connectZk ==
    /\ zkClient < MaxClients
    /\ zkClient' = zkClient + 1
    /\ clientState' = [clientState EXCEPT ![zkClient + 1] = "connecting"]

\* start() calls connectZk()
StartConnects ==
    /\ listening
    /\ zkClient = 0
    /\ connectZk
    /\ UNCHANGED <<zkConnected, reconnectTimers>>
    /\ ConnFrame

\* a client emits 'connected': zkConnected = true
ClientConnected(c) ==
    /\ clientState[c] \in {"connecting", "disconnected"}
    /\ clientState' = [clientState EXCEPT ![c] = "connected"]
    /\ zkConnected' = TRUE
    /\ UNCHANGED <<zkClient, reconnectTimers>>
    /\ ConnFrame

\* a client emits 'disconnected': zkConnected = false.  The client of an
\* expired session emits it when its socket closes, and nothing after that.
ClientDisconnected(c) ==
    /\ clientState[c] \in {"connected", "expired"}
    /\ clientState' = [clientState EXCEPT ![c] =
                          IF clientState[c] = "expired" THEN "closed" ELSE "disconnected"]
    /\ zkConnected' = FALSE
    /\ UNCHANGED <<zkClient, reconnectTimers>>
    /\ ConnFrame

\* as the 'expired' listener, but no reconnect is scheduled
ClientExpired_NoReconnect(c) ==
    /\ clientState[c] = "disconnected"
    /\ Cardinality({d \in Clients : clientState[d] \in {"expired", "closed"}})
          + 1 < MaxClients
    /\ clientState' = [clientState EXCEPT ![c] = "expired"]
    /\ zkConnected' = FALSE
    /\ UNCHANGED <<zkClient, reconnectTimers>>
    /\ ConnFrame

\* a client emits 'expired' when it reconnects and its session is gone:
\* zkConnected = false; setTimeout(connectZk, 1000).  Sessions expire while
\* the model has clients left to replace them.
ClientExpired(c) ==
    /\ clientState[c] = "disconnected"
    /\ Cardinality({d \in Clients : clientState[d] \in {"expired", "closed"}})
          + 1 < MaxClients
    /\ clientState' = [clientState EXCEPT ![c] = "expired"]
    /\ zkConnected' = FALSE
    /\ reconnectTimers' = reconnectTimers + 1
    /\ UNCHANGED zkClient
    /\ ConnFrame

\* a timer of setTimeout(connectZk, 1000) fires
ReconnectTimerFires ==
    /\ reconnectTimers > 0
    /\ reconnectTimers' = reconnectTimers - 1
    /\ connectZk
    /\ UNCHANGED zkConnected
    /\ ConnFrame

-----------------------------------------------------------------------------
(* Inputs.                                                                 *)

SeqsUpTo(S, n) == UNION {[1..k -> S] : k \in 0..n}

StrAlphabet == {"0", "7", "-", ".", "a"}

Strings == SeqsUpTo(StrAlphabet, MaxStrLen)

TwoTo53Plus1 == DecAdd(TwoTo53, <<"1">>)

\* "12345678901234567890"
BigUint == <<"1","2","3","4","5","6","7","8","9","0",
             "1","2","3","4","5","6","7","8","9","0">>

BackendName == <<"pkg", ".", "Backend">>
ConfigName == <<"pkg", ".", "sub", ".", "Config">>

\* 64-bit patterns: 0, 7, 2^53 - 1, 2^53, 2^53 + 1, 2^63 - 1, 2^63,
\* 12345678901234567890, 2^64 - (2^53 + 1), 2^64 - 1
LongSamples ==
    { <<"0">>, <<"7">>, MaxSafeInteger, TwoTo53, TwoTo53Plus1,
      DecSub(TwoTo63, <<"1">>), TwoTo63, BigUint,
      DecSub(TwoTo64, TwoTo53Plus1), DecSub(TwoTo64, <<"1">>) }

StringSamples == Strings \cup {MaxSafeInteger, TwoTo53Plus1, <<"-">> \o TwoTo53Plus1}

\* octets; 215 109 248 is "1234" in base64, 211 77 53 is "0001"
BytesSamples == { <<>>, <<1>>, <<255, 254>>, <<215, 109, 248>>, <<211, 77, 53>>,
                  <<215, 109, 248, 1>> }

TagSamples == SeqsUpTo({<<"t">>, <<"0", "7">>, <<"1", ".", "5", "0">>}, MaxArrLen)

\* a payload that carries every scalar field
FullPayload(id, uid, name, blob, tags) ==
    << Entry("id", WLong(id)), Entry("uid", WLong(uid)), Entry("name", WString(name)),
       Entry("blob", WBytes(blob)) >>
    \o [j \in 1..Len(tags) |-> Entry("tags", WString(tags[j]))]

FullPayloads ==
    {FullPayload(id, <<"7">>, <<"n">>, <<1>>, <<>>) : id \in LongSamples}
    \cup {FullPayload(<<"5">>, uid, <<"n">>, <<1>>, <<>>) : uid \in LongSamples}
    \cup {FullPayload(<<"5">>, <<"7">>, name, <<1>>, <<>>) : name \in StringSamples}
    \cup {FullPayload(<<"5">>, <<"7">>, <<"n">>, blob, <<>>) : blob \in BytesSamples}
    \cup {FullPayload(<<"5">>, <<"7">>, <<"n">>, <<1>>, tags) : tags \in TagSamples}

\* payloads of a default instance with one field set
SingleFieldPayloads ==
    {<<Entry("id", WLong(id))>> : id \in LongSamples}
    \cup {<<Entry("uid", WLong(uid))>> : uid \in LongSamples}
    \cup {<<Entry("name", WString(name))>> : name \in StringSamples}
    \cup {<<Entry("blob", WBytes(blob))>> : blob \in BytesSamples}

Payloads == FullPayloads \cup SingleFieldPayloads

\* bodies of decode requests, a payload cut short among them
ErrorPayloads ==
    { <<>>, <<Entry("id", WLong(TwoTo53Plus1))>>,
      <<Entry("id", WLong(<<"5">>)), Entry("name", WTruncated)>> }

\* bodies of encode requests: nothing, no object, fields the converter
\* accepts and fields it throws on
ErrorData ==
    { JNull, JStr(<<"x">>), EmptyObject,
      ObjectOf(<< <<"id", JStr(<<"7">>)>> >>),
      ObjectOf(<< <<"id", JStr(<<"1", "-", "2">>)>> >>),
      ObjectOf(<< <<"tags", JStr(<<"t">>)>> >>),
      ObjectOf(<< <<"tags", JArr(<<JStr(<<"t">>)>>)>> >>),
      ObjectOf(<< <<"blob", JStr(<<"!">>)>> >>),
      ObjectOf(<< <<"name", JStr(<<"n">>)>>, <<"uid", JStr(BigUint)>> >>) }

\* values of a JSON document
InnerLeaves ==
    { JStr(<<"7">>), JStr(<<"-", "0">>), JStr(<<"1", ".", "5", "0">>), JStr(<<"a">>),
      JStr(TwoTo53), JNull, JBool(TRUE), JNum(FALSE, <<"7">>, <<>>) }

InnerValues ==
    InnerLeaves
    \cup {JArr(<<JStr(<<"0", "7">>), JStr(<<"a">>)>>),
          ObjectOf(<< <<"k", JStr(<<"7", ".", "0">>)>> >>)}

Keys == {"a", "b", "__proto__"}

NormInputs ==
    {JStr(s) : s \in StringSamples \cup {TwoTo53, <<"-">> \o MaxSafeInteger, BigUint}}
    \cup {JNull, JBool(FALSE), JNum(TRUE, <<"1">>, <<"5">>)}
    \cup {JArr(a) : a \in SeqsUpTo(InnerValues, MaxArrLen)}
    \cup {ObjectOf(<< <<k, v>> >>) : k \in Keys, v \in InnerValues}
    \cup {ObjectOf(<< <<kk[1], v1>>, <<kk[2], v2>> >>) :
            kk \in {x \in Keys \X Keys : x[1] # x[2]},
            v1 \in InnerLeaves, v2 \in InnerLeaves}

PathAlphabet == {"/", "a", "r"}

Paths == SeqsUpTo(PathAlphabet, MaxPathLen)

Roots == {<<>>, <<"/", "r">>, <<"/", "a">>}

MapEntries ==
    {[segment |-> seg, type |-> ty] :
        seg \in {"a", "r"}, ty \in {BackendName, ConfigName}}
    \cup {[segment |-> "", type |-> BackendName], [segment |-> "a", type |-> NoType]}

PrefixEntries ==
    { [path |-> <<"/", "a">>, type |-> BackendName],
      [path |-> <<"/", "a", "/", "r">>, type |-> ConfigName],
      [path |-> <<"/", "r">>, type |-> ConfigName],
      [path |-> <<"/", "r">>, type |-> NoType],
      [path |-> <<>>, type |-> BackendName] }

\* 1700000000000, a time in 2023
Time2023 == <<"1","7","0","0","0","0","0","0","0","0","0","0","0">>

\* raw values of a field of a stat record: Buffers of eight octets (0, 1,
\* Time2023, -1, -2^63, 8.64e15, 8.64e15 + 1, 2^53 + 1), Buffers of another
\* length, wrapper objects, numbers, and what is no 64-bit value at all
RawValues ==
    { RBuffer(<<0, 0, 0, 0, 0, 0, 0, 0>>), RBuffer(<<0, 0, 0, 0, 0, 0, 0, 1>>),
      RBuffer(<<0, 0, 1, 139, 207, 229, 104, 0>>),
      RBuffer(<<255, 255, 255, 255, 255, 255, 255, 255>>),
      RBuffer(<<128, 0, 0, 0, 0, 0, 0, 0>>),
      RBuffer(<<0, 30, 178, 8, 194, 220, 0, 0>>),
      RBuffer(<<0, 30, 178, 8, 194, 220, 0, 1>>),
      RBuffer(<<0, 32, 0, 0, 0, 0, 0, 1>>),
      RBuffer(<<>>), RBuffer(<<0, 0, 0, 0, 0, 0, 1>>),
      RBuffer(<<0, 0, 0, 0, 0, 0, 0, 1, 9>>),
      RLong(FALSE, <<"0">>), RLong(FALSE, Time2023), RLong(TRUE, <<"1">>),
      RLong(FALSE, TwoTo53Plus1), RLong(FALSE, MaxTimeValue),
      JNum(FALSE, <<"0">>, <<>>), JNum(FALSE, <<"5">>, <<>>), JNum(TRUE, <<"5">>, <<>>),
      JNum(FALSE, Time2023, <<>>), JNum(FALSE, MaxTimeValue, <<>>),
      JNum(FALSE, DecAdd(MaxTimeValue, <<"1">>), <<>>),
      JUndefined, JNull, NaN, JStr(<<"a", "b", "c">>),
      RObject("plain"), RObject("throws"), RObject("absent") }

\* a stat record as the ZooKeeper client delivers it
BaseStat ==
    [t |-> "stat",
     czxid |-> RBuffer(<<0, 0, 0, 0, 0, 0, 0, 1>>),
     mzxid |-> RBuffer(<<0, 0, 0, 0, 0, 0, 0, 1>>),
     ctime |-> RBuffer(<<0, 0, 1, 139, 207, 229, 104, 0>>),
     mtime |-> RBuffer(<<0, 0, 1, 139, 207, 229, 104, 0>>),
     version |-> JNum(FALSE, <<"3">>, <<>>),
     ephemeralOwner |-> RBuffer(<<0, 0, 0, 0, 0, 0, 0, 0>>),
     pzxid |-> RBuffer(<<0, 0, 0, 0, 0, 0, 0, 1>>)]

\* arguments of formatStat: no record, and records with one field varied
StatInputs ==
    {JNull, JUndefined}
    \cup {[BaseStat EXCEPT ![f] = v] : f \in IdFields \cup TimeFields, v \in RawValues}

\* values of PROTO_IMPORT_PREFIX
ImportPrefixes == {<<>>, <<"pre", "/">>, <<"pre">>, <<"google", "/">>}

\* importing files: none (a root file), a file under PROTO_DIR, a relative name
ImportOrigins ==
    {<<>>, <<"/", "protos", "/", "sub", "/", "a.proto">>, <<"a.proto">>}

ImportTargets ==
    {head \o tail :
        head \in {<<>>, <<"/">>, <<"google", "/", "protobuf", "/">>,
                  <<"google", "/", "api", "/">>, <<"pre", "/">>, <<"google", "/">>,
                  <<"..", "/">>},
        tail \in SeqsUpTo({"x", "/", ".."}, MaxTailLen)}

\* the registry and the type list after a.proto alone loaded
LoadedRoot == Parse(NewRoot, FileA, Len(Statements(FileA)))

-----------------------------------------------------------------------------
(* Direct calls of the pure functions.                                     *)

Normalize ==
    /\ normOut = NotCalled
    /\ normOut' = convertStringNumbers(normIn)
    /\ UNCHANGED extraVars
    /\ UNCHANGED <<normIn, loaderVars, codecVars, configVars, resolveVars>>
    /\ UNCHANGED <<importVars, statVars, nodeVars>>

NoResolution == [strategy |-> "none", type |-> NoType]

\* getMessageTypeForPath(path)
ResolveSegment(path) ==
    /\ resolvePath' = path
    /\ resolveOut' = [strategy |-> "segment", type |-> getMessageTypeForPath(path)]
    /\ UNCHANGED extraVars
    /\ UNCHANGED <<loaderVars, codecVars, normVars, configVars>>
    /\ UNCHANGED <<importVars, statVars, nodeVars>>

\* the path mapping of the decode handler, entered when path is not empty
ResolvePrefix(path) ==
    /\ path # <<>>
    /\ resolvePath' = path
    /\ resolveOut' = [strategy |-> "prefix", type |-> pathMappingType(path)]
    /\ UNCHANGED extraVars
    /\ UNCHANGED <<loaderVars, codecVars, normVars, configVars>>
    /\ UNCHANGED <<importVars, statVars, nodeVars>>

-----------------------------------------------------------------------------
(* Specifications.                                                         *)

CodecIdle ==
    /\ decodeReq = NoReq
    /\ decodeResp = NoResp
    /\ encodeReq = NoReq
    /\ convertedData = NotCalled
    /\ encodeResp = NoResp

NormIdle == normIn = JNull /\ normOut = NotCalled

ResolveIdle == resolvePath = <<>> /\ resolveOut = NoResolution

ImportIdle == importOrigin = <<>> /\ importTarget = <<>> /\ importOut = NoImport

StatIdle == statIn = JNull /\ statOut = NotCalled

NodeIdle == zkConnected = FALSE /\ zkOps = {} /\ nodeResp = NoResp

\* an empty tree below the root, nothing sent and no request in flight
RaceIdle ==
    /\ zkTree = [p \in TreePaths |-> NoNode]
    /\ zkQueue = <<>>
    /\ nodeCalls = [id \in CallIds |-> NoCall]

\* NodeView before a node is selected
ViewIdle ==
    /\ viewPath = <<>>
    /\ viewNode = JNull
    /\ viewLoading = FALSE
    /\ viewError = JNull
    /\ activeTab = "data"
    /\ decodedData = JNull
    /\ tabLoading = FALSE
    /\ nodeFetches = {}
    /\ decodeFetches = {}

\* the SearchBar after its first render: the effect cleared the filter
FilterIdle ==
    /\ query = <<>>
    /\ filterLoading = FALSE
    /\ debounceRef = NoTimer
    /\ searchFetches = {}
    /\ lastFilter = JNull

\* before connectZk() is called
ConnIdle ==
    /\ zkClient = 0
    /\ clientState = [c \in Clients |-> "none"]
    /\ reconnectTimers = 0

\* no search and no preview yet
ReadIdle ==
    /\ searchTree = NoTree
    /\ searchPattern = <<>>
    /\ clientAutoType = NoPreview

ExtraIdle == RaceIdle /\ ViewIdle /\ FilterIdle /\ ConnIdle /\ ReadIdle

\* no direct call of a function and no write request yet
CallsIdle == NormIdle /\ ResolveIdle /\ ImportIdle /\ StatIdle /\ NodeIdle

\* ZK_ROOT_PATH=/r  ZK_PATH_TYPE_MAP=a:pkg.Backend
ConfigDefault ==
    /\ ZK_ROOT_PATH = <<"/", "r">>
    /\ zkPathTypeMap = ParseTypeMap(<<[segment |-> "a", type |-> BackendName]>>)
    /\ pathMappings = <<>>
    /\ PROTO_IMPORT_PREFIX = <<>>
    /\ READ_ONLY = FALSE

NoSyntaxError == [f \in DirUniverse |-> Len(Statements(f))]

\* the server after start() loaded a.proto
Loaded ==
    /\ dirEntries = {FileA}
    /\ readdirFails = FALSE
    /\ syntaxErrAt = NoSyntaxError
    /\ protoRoot = LoadedRoot
    /\ messageTypes = extractTypes(LoadedRoot, <<>>, <<>>)
    /\ loadPc = "done"
    /\ pending = {}
    /\ loadOutcome = "ok"
    /\ listening = TRUE

\* the process at its start: the module-level initialisers have run
Init ==
    /\ dirEntries \in SUBSET DirUniverse
    /\ readdirFails \in BOOLEAN
    /\ syntaxErrAt \in [DirUniverse -> 0..3]
    /\ \A f \in DirUniverse :
          /\ syntaxErrAt[f] <= Len(Statements(f))
          /\ f \notin dirEntries => ~Broken(f)
    /\ protoRoot = NewRoot
    /\ messageTypes = <<>>
    /\ loadPc = "start"
    /\ pending = {}
    /\ loadOutcome = "none"
    /\ listening = FALSE
    /\ CodecIdle /\ NormIdle /\ ConfigDefault /\ ResolveIdle
    /\ ImportIdle /\ StatIdle /\ NodeIdle
    /\ ExtraIdle

RequestTypeNames ==
    {NoType, BackendName, ConfigName, <<"Backend">>, <<"pkg", ".", "Status">>}

RequestPayloads == {<<>>, <<Entry("id", WLong(TwoTo53Plus1))>>}

RequestPaths == {<<>>, <<"/", "r", "/", "a", "/", "n">>, <<"/", "a", "/", "n">>}

\* The handlers change no state of the server, so a behaviour follows one
\* round trip of one client: a decode request, then the encode request.
DecodeRequest ==
    /\ decodeReq = NoReq
    /\ \E dataHex \in RequestPayloads, messageType \in RequestTypeNames,
       path \in RequestPaths : Decode(dataHex, messageType, path)

\* the client sends the decoded object back, unmodified, under the type
\* the decode response names
EncodeDecoded ==
    /\ decodeResp.status = 200
    /\ encodeReq = NoReq
    /\ Encode(decodeResp.decoded, decodeResp.messageType)

Next ==
    \/ LoadProtosStart
    \/ ReaddirSettles
    \/ \E f \in DirUniverse : FileRead(f)
    \/ DecodeRequest
    \/ EncodeDecoded

Spec == Init /\ [][Next]_vars

\* the codec endpoints of a server that loaded its schema
InitCodec ==
    /\ Loaded /\ CodecIdle /\ NormIdle /\ ConfigDefault /\ ResolveIdle
    /\ ImportIdle /\ StatIdle /\ NodeIdle
    /\ ExtraIdle

DecodePayload ==
    /\ decodeReq = NoReq
    /\ \E dataHex \in Payloads : Decode(dataHex, BackendName, <<>>)

NextCodec == DecodePayload \/ EncodeDecoded

SpecCodec == InitCodec /\ [][NextCodec]_vars

DecodeFullPayload ==
    /\ decodeReq = NoReq
    /\ \E dataHex \in FullPayloads : Decode(dataHex, BackendName, <<>>)

NextRoundTrip == DecodeFullPayload \/ EncodeDecoded

SpecRoundTrip == InitCodec /\ [][NextRoundTrip]_vars

\* requests of every kind to the codec endpoints, in any order
DecodeAny ==
    /\ decodeReq = NoReq
    /\ \E dataHex \in ErrorPayloads, messageType \in RequestTypeNames,
          path \in RequestPaths : Decode(dataHex, messageType, path)

EncodeAny ==
    /\ encodeReq = NoReq
    /\ \E data \in ErrorData, messageType \in RequestTypeNames :
          Encode(data, messageType)

NextErrors == DecodeAny \/ EncodeAny

SpecErrors == InitCodec /\ [][NextErrors]_vars

\* convertStringNumbers on its own
InitNorm ==
    /\ Loaded /\ CodecIdle /\ ConfigDefault /\ ResolveIdle
    /\ ImportIdle /\ StatIdle /\ NodeIdle
    /\ ExtraIdle
    /\ normIn \in NormInputs
    /\ normOut = NotCalled

SpecNorm == InitNorm /\ [][Normalize]_vars

\* the segment strategy under every configuration
InitSegment ==
    /\ Loaded /\ CodecIdle /\ NormIdle /\ ResolveIdle
    /\ ImportIdle /\ StatIdle /\ NodeIdle
    /\ ExtraIdle
    /\ PROTO_IMPORT_PREFIX = <<>>
    /\ READ_ONLY = FALSE
    /\ ZK_ROOT_PATH \in Roots
    /\ zkPathTypeMap \in {ParseTypeMap(e) : e \in SeqsUpTo(MapEntries, MaxMapLen)}
    /\ pathMappings = <<>>

NextSegment == resolveOut = NoResolution /\ \E path \in Paths : ResolveSegment(path)

SpecSegment == InitSegment /\ [][NextSegment]_vars

\* formatStat on its own
InitStat ==
    /\ Loaded /\ CodecIdle /\ ConfigDefault
    /\ NormIdle /\ ResolveIdle /\ ImportIdle /\ NodeIdle
    /\ ExtraIdle
    /\ statIn \in StatInputs
    /\ statOut = NotCalled

SpecStat == InitStat /\ [][FormatStat]_vars

\* the write endpoints under both settings of READ_ONLY, with encode
\* requests whose buffer a PUT then carries as dataHex
NodePaths == {<<>>, <<"/">>, <<"/", "a">>}

InitNode ==
    /\ Loaded /\ CodecIdle /\ CallsIdle
    /\ ExtraIdle
    /\ ZK_ROOT_PATH = <<"/", "r">>
    /\ zkPathTypeMap = ParseTypeMap(<<[segment |-> "a", type |-> BackendName]>>)
    /\ pathMappings = <<>>
    /\ PROTO_IMPORT_PREFIX = <<>>
    /\ READ_ONLY \in BOOLEAN

PutNode ==
    \E path \in NodePaths \ {<<"/">>},
       dataHex \in {<<>>} \cup (IF encodeResp # NoResp /\ encodeResp.status = 200
                                THEN {encodeResp.dataHex} ELSE {}),
       exists \in BOOLEAN, fails \in {"none", "exists", "write"} :
        Put(path, <<>>, dataHex, exists, fails)

DeleteNode ==
    \E path \in NodePaths, fails \in BOOLEAN : Delete(path, fails)

NextNode == ZkConnected \/ ZkDisconnected \/ EncodeAny \/ PutNode \/ DeleteNode

SpecNode == InitNode /\ [][NextNode]_vars

\* decode, encode and path resolution requests in any order and number
FrameData ==
    { EmptyObject, ObjectOf(<< <<"id", JStr(<<"7">>)>> >>),
      ObjectOf(<< <<"tags", JStr(<<"t">>)>> >>) }

InitFrame ==
    /\ Loaded /\ CodecIdle /\ CallsIdle
    /\ ExtraIdle
    /\ ZK_ROOT_PATH \in {<<>>, <<"/", "r">>}
    /\ zkPathTypeMap = ParseTypeMap(<<[segment |-> "a", type |-> BackendName]>>)
    /\ pathMappings = <<>>
    /\ PROTO_IMPORT_PREFIX = <<>>
    /\ READ_ONLY = FALSE

DecodeAgain ==
    \E dataHex \in RequestPayloads, messageType \in RequestTypeNames,
       path \in RequestPaths : Decode(dataHex, messageType, path)

EncodeAgain ==
    \E data \in FrameData, messageType \in {BackendName, <<"Backend">>} :
        Encode(data, messageType)

ResolveAgain ==
    \E path \in RequestPaths \cup {<<"/", "a">>} : ResolveSegment(path)

NextFrame == DecodeAgain \/ EncodeAgain \/ ResolveAgain

SpecFrame == InitFrame /\ [][NextFrame]_vars

\* PUT and DELETE requests in flight together, on a writable and connected
\* server
InitRace ==
    /\ Loaded /\ CodecIdle /\ NormIdle /\ ResolveIdle /\ ImportIdle /\ StatIdle
    /\ ConfigDefault
    /\ zkConnected = TRUE
    /\ zkOps = {}
    /\ nodeResp = NoResp
    /\ zkTree \in [TreePaths -> {NoNode, ZNode(<<"x">>)}]
    /\ zkQueue = <<>>
    /\ nodeCalls = [id \in CallIds |-> NoCall]
    /\ ViewIdle /\ FilterIdle /\ ConnIdle /\ ReadIdle

NextRace ==
    \/ \E id \in CallIds, path \in TreePaths \cup {<<>>}, data \in {<<"y">>, <<"z">>} :
          PutNodeBegin(id, path, data)
    \/ \E id \in CallIds, path \in TreePaths \cup {<<"/">>} : DeleteNodeBegin(id, path)
    \/ ZkExistsDone
    \/ ZkWriteDone

SpecRace == InitRace /\ [][NextRace]_vars

\* NodeView over three nodes, one of them under a mapped segment
ViewPaths == {<<"/", "r", "/", "a">>, <<"/", "r", "/", "b">>, <<"/", "r", "/", "a", "/", "n">>}

InitView ==
    /\ Loaded /\ CodecIdle /\ CallsIdle /\ RaceIdle /\ ViewIdle /\ FilterIdle /\ ConnIdle
    /\ ReadIdle
    /\ ConfigDefault

NextView ==
    \/ \E p \in ViewPaths : SelectPath(p)
    \/ Refresh
    \/ \E p \in ViewPaths : GetNodeResolves(p)
    \/ \E p \in ViewPaths : GetNodeRejects(p)
    \/ \E tab \in {"data", "decoded", "stat"} : ClickTab(tab)
    \/ HandleDecode(BackendName)
    \/ \E f \in decodeFetches : DecodeResolves(f)
    \/ \E f \in decodeFetches : DecodeRejects(f)

SpecView == InitView /\ [][NextView]_vars

\* the filtering SearchBar under a user who types, waits and clears
Queries == {<<>>, <<" ">>, <<"a">>, <<"b">>, <<"a", "b">>}

InitFilter ==
    /\ Loaded /\ CodecIdle /\ CallsIdle /\ RaceIdle /\ ViewIdle /\ FilterIdle /\ ConnIdle
    /\ ReadIdle
    /\ ConfigDefault

NextFilter ==
    \/ HandleClear
    \/ \E q \in Queries : SetQuery(q)
    \/ TimerFires
    \/ \E q \in Queries : SearchResolves(q)
    \/ \E q \in Queries : SearchRejects(q)

SpecFilter == InitFilter /\ [][NextFilter]_vars

\* the connection to ZooKeeper from start() on, with requests that show
\* the flag: GET /api/info and GET /api/node for the root
InitConn ==
    /\ Loaded /\ CodecIdle /\ CallsIdle /\ RaceIdle /\ ViewIdle /\ FilterIdle /\ ConnIdle
    /\ ReadIdle
    /\ ConfigDefault

NextConn ==
    \/ StartConnects
    \/ \E c \in Clients : ClientConnected(c)
    \/ \E c \in Clients : ClientDisconnected(c)
    \/ \E c \in Clients : ClientExpired(c)
    \/ ReconnectTimerFires
    \/ GetInfo
    \/ GetNode(<<>>, "none")

SpecConn == InitConn /\ [][NextConn]_vars

\* the same, with timers that fire
SpecReconnect == SpecConn /\ WF_vars(ReconnectTimerFires)

\* every endpoint of a server whose connection comes and goes, under both
\* settings of READ_ONLY
GuardPaths == {<<>>, <<"/">>, <<"/", "a">>}

GuardTree == {TreeNode(<<"/">>, TRUE, << <<"a">> >>), TreeNode(<<"/", "a">>, TRUE, <<>>)}

GuardPatterns == {<<>>, <<"a">>}

ReadNode ==
    \E fails \in {"none", "getChildren"} : GetNode(<<>>, fails)

ReadChildren ==
    \E fails \in BOOLEAN : GetChildren(<<>>, << <<"a">> >>, fails)

SearchTree == \E pattern \in GuardPatterns : Search(pattern, GuardTree)

WriteNode ==
    \E path \in {<<>>, <<"/", "a">>}, exists \in BOOLEAN :
        Put(path, <<>>, <<>>, exists, "none")

DecodeOnce ==
    /\ decodeReq = NoReq
    /\ Decode(<<Entry("id", WLong(<<"5">>))>>, NoType, <<"/", "r", "/", "a", "/", "n">>)

NextGuard ==
    \/ ZkConnected
    \/ ZkDisconnected
    \/ ReadNode
    \/ ReadChildren
    \/ SearchTree
    \/ WriteNode
    \/ DeleteNode
    \/ GetInfo
    \/ GetProtos
    \/ DecodeOnce
    \/ EncodeDecoded

SpecGuard == InitNode /\ [][NextGuard]_vars

\* GET /api/search over every tree of two levels with at most one node
\* whose children cannot be read, and over a wide tree
TreeNames == {<<"a">>, <<"B">>}

ChildOrders == {<<>>, << <<"a">> >>, << <<"B">> >>, << <<"a">>, <<"B">> >>,
                << <<"B">>, <<"a">> >>}

InnerPaths == {<<"/">>} \cup {childPath(<<"/">>, n) : n \in TreeNames}

LeafPaths == {childPath(childPath(<<"/">>, n), m) : n \in TreeNames, m \in TreeNames}

\* the tree in which getChildren answers kids[p] at the inner path p and
\* fails at bad
TreeOf(kids, bad) ==
    LET below(p) == IF p = bad THEN {}
                    ELSE {childPath(p, kids[p][i]) : i \in 1..Len(kids[p])}
        level1   == below(<<"/">>)
        level2   == UNION {below(p) : p \in level1}
    IN  {TreeNode(p, p # bad, IF p = bad THEN <<>> ELSE kids[p]) :
            p \in {<<"/">>} \cup level1}
        \cup {TreeNode(p, p # bad, <<>>) : p \in level2}

SmallTrees ==
    {TreeOf(kids, bad) : kids \in [InnerPaths -> ChildOrders],
                         bad \in {<<>>} \cup InnerPaths \cup LeafPaths}

\* a root with MaxWide children a1, a2, ...; the children of a1 cannot be
\* read
WideTree ==
    {TreeNode(<<"/">>, TRUE, [i \in 1..MaxWide |-> <<"a">> \o IntToDec(i)])}
    \cup {TreeNode(<<"/", "a">> \o IntToDec(i), i # 1, <<>>) : i \in 1..MaxWide}

SearchPatterns ==
    {<<>>, <<"a">>, <<"A">>, <<"b">>, <<"/">>, <<"a", "/", "B">>, <<"/", "b">>, <<"x">>,
     <<"1">>}

InitSearch ==
    /\ Loaded /\ CodecIdle /\ NormIdle /\ ResolveIdle /\ ImportIdle /\ StatIdle
    /\ ConfigDefault
    /\ zkConnected = TRUE
    /\ zkOps = {}
    /\ nodeResp = NoResp
    /\ RaceIdle /\ ViewIdle /\ FilterIdle /\ ConnIdle
    /\ searchTree \in SmallTrees \cup {WideTree}
    /\ searchPattern = <<>>
    /\ clientAutoType = NoPreview

SearchAny ==
    /\ nodeResp = NoResp
    /\ \E pattern \in SearchPatterns : Search(pattern, searchTree)

SpecSearch == InitSearch /\ [][SearchAny]_vars

\* the client's preview and the server's resolver under every
\* configuration, for plain paths and for paths whose first segment names a
\* property of Object.prototype
PreviewPaths ==
    Paths \cup {<<"/", "constructor">>, <<"/", "r", "/", "__proto__", "/", "a">>,
                <<"/", "r", "/", "toString">>}

PreviewAny == clientAutoType = NoPreview /\ \E p \in PreviewPaths : Preview(p)

ResolveSelected ==
    /\ clientAutoType # NoPreview
    /\ resolveOut = NoResolution
    /\ ResolveSegment(viewPath)

NextPreview == PreviewAny \/ ResolveSelected

SpecPreview == InitSegment /\ [][NextPreview]_vars

\* the import resolver under every import prefix
InitImport ==
    /\ Loaded /\ CodecIdle /\ CallsIdle
    /\ ExtraIdle
    /\ ZK_ROOT_PATH = <<>>
    /\ zkPathTypeMap = <<>>
    /\ pathMappings = <<>>
    /\ PROTO_IMPORT_PREFIX \in ImportPrefixes
    /\ READ_ONLY = FALSE

NextImport ==
    /\ importOut = NoImport
    /\ \E origin \in ImportOrigins, target \in ImportTargets :
          ResolveImport(origin, target)

SpecImport == InitImport /\ [][NextImport]_vars

\* the prefix strategy under every configuration
InitPrefix ==
    /\ Loaded /\ CodecIdle /\ NormIdle /\ ResolveIdle
    /\ ImportIdle /\ StatIdle /\ NodeIdle
    /\ ExtraIdle
    /\ PROTO_IMPORT_PREFIX = <<>>
    /\ READ_ONLY = FALSE
    /\ ZK_ROOT_PATH = <<>>
    /\ zkPathTypeMap = <<>>
    /\ pathMappings \in SeqsUpTo(PrefixEntries, MaxMapLen)

NextPrefix == resolveOut = NoResolution /\ \E path \in Paths : ResolvePrefix(path)

SpecPrefix == InitPrefix /\ [][NextPrefix]_vars

-----------------------------------------------------------------------------
(* Properties of the codec endpoints.                                      *)

\* C1: decoding a valid payload b of a registered type and sending the
\* decoded object back, unmodified, to the encode endpoint under the same type
\* yields bytes equal to b, whatever the text of its string and bytes fields
C1_RoundTripFromBytes ==
    (decodeResp.status = 200 /\ encodeReq # NoReq) =>
        /\ encodeResp.status = 200
        /\ encodeResp.dataHex = decodeReq.dataHex

\* the last value the payload carries for a field, as the decoder keeps it
LastValue(payload, f) == ValuesOf(payload, f)[Len(ValuesOf(payload, f))]

\* a 64-bit field value above 2^53: the bits read as the field's kind reads them
Above2To53(fld, bits) ==
    /\ DecLess(TwoTo53, bits)
    /\ fld.kind = "int64" => DecLess(bits, TwoTo63)

\* C2: a 64-bit field whose value is above 2^53 is rendered by decode as its
\* decimal string, the encode normalization leaves that string a string, and
\* re-encoding the unmodified object reproduces exactly the original value
C2_Precision ==
    (decodeResp.status = 200 /\ decodeResp.messageType = BackendName) =>
        \A i \in 1..Len(BackendFields) :
            LET fld == BackendFields[i]
            IN  ( /\ fld.kind \in {"int64", "uint64"}
                  /\ ValuesOf(decodeReq.dataHex, fld.name) # <<>>
                  /\ Above2To53(fld, LastValue(decodeReq.dataHex, fld.name).bits) ) =>
                LET bits == LastValue(decodeReq.dataHex, fld.name).bits
                IN  /\ decodeResp.decoded.val[fld.name] = JStr(bits)
                    /\ encodeReq # NoReq =>
                          /\ convertedData.t = "object"
                          /\ convertedData.val[fld.name] = JStr(bits)
                          /\ encodeResp.status = 200
                          /\ ValuesOf(encodeResp.dataHex, fld.name) = <<WLong(bits)>>

\* a completed round trip of a payload whose uint64 field is 12345678901234567890
C2_Witness ==
    /\ encodeResp.status = 200
    /\ ValuesOf(decodeReq.dataHex, "uid") = <<WLong(BigUint)>>
    /\ decodeResp.decoded.val["uid"] = JStr(BigUint)

\* the integer a text of the integer pattern denotes is in the safe range
InSafeRange(s) == DecLE(StripZeros(Unsigned(s)), MaxSafeInteger)

RECURSIVE Normalized(_, _)
\* out is what the normalization rule asks for in: a string becomes a number
\* exactly when it matches the integer pattern with a value in the safe range
\* (that integer) or matches the decimal pattern; every other leaf is
\* unchanged; arrays keep length and order, objects keep their keys
Normalized(in, out) ==
    CASE in.t = "string" ->
            IF IntegerRegex(in.s) /\ InSafeRange(in.s)
            THEN out = JNum(in.s[1] = "-", StripZeros(Unsigned(in.s)), <<>>)
            ELSE IF DecimalRegex(in.s) THEN out.t = "number"
            ELSE out = in
      [] in.t = "array" ->
            /\ out.t = "array"
            /\ Len(out.a) = Len(in.a)
            /\ \A i \in 1..Len(in.a) : Normalized(in.a[i], out.a[i])
      [] in.t = "object" ->
            /\ out.t = "object"
            /\ out.keys = in.keys
            /\ \A i \in 1..Len(in.keys) : Normalized(in.val[in.keys[i]], out.val[in.keys[i]])
      [] OTHER -> out = in

\* C3: convertStringNumbers follows the normalization rule through every
\* object value and array element, keeping object keys and array lengths and
\* order
C3_NormalizationRule == normOut # NotCalled => Normalized(normIn, normOut)

-----------------------------------------------------------------------------
(* Properties of the loader and the registry.                              *)

\* the schema files loadProtos discovers
DiscoveredFiles == {f \in (IF readdirFails THEN {} ELSE dirEntries) : EndsWithProto(f)}

\* the reflection objects a schema file declares
DeclaredNodes(f) ==
    UNION {SeqToSet(Statements(f)[i].nodes) : i \in 1..Len(Statements(f))}

\* the registry holds everything every discovered file declares
FullyBuilt(root) == \A f \in DiscoveredFiles : DeclaredNodes(f) \subseteq SeqToSet(root)

\* C4: whenever a decode or encode call can be served, the published
\* protoRoot is the complete previous registry (the empty one of the process
\* start) or the complete new one: protoRoot is only ever replaced by a
\* fully built registry
C4_AtomicSwap == listening => (protoRoot = NewRoot \/ FullyBuilt(protoRoot))

\* C5: after a compile failure loadProtos has returned without throwing and
\* the published registry and the type list are empty (the previous value),
\* never populated from a part of the files
C5_CompileFailure ==
    loadOutcome = "failed" =>
        /\ loadPc = "done"
        /\ protoRoot = NewRoot
        /\ messageTypes = <<>>

\* the message types of a registry
TypesOf(root) == {n \in SeqToSet(root) : n.kind = "type"}

\* the fully qualified dotted name of the node at path
Dotted(path) ==
    [i \in 1..(2 * Len(path) - 1) |-> IF i % 2 = 1 THEN path[(i + 1) \div 2] ELSE "."]

\* the path a dotted name spells
PathOf(name) == [i \in 1..((Len(name) + 1) \div 2) |-> name[2 * i - 1]]

\* every name in messageTypes resolves by lookup in the published protoRoot
\* and every message type of the published protoRoot is in messageTypes
Lockstep ==
    /\ \A i \in 1..Len(messageTypes) : lookupType(protoRoot, messageTypes[i]) # NotFound
    /\ \A n \in TypesOf(protoRoot) : Dotted(n.path) \in SeqToSet(messageTypes)

IndexOf(root, path) == CHOOSE i \in 1..Len(root) : root[i].path = path

\* the node at p is visited before the node at q by a depth-first walk that
\* takes the entries of every namespace in insertion order: p is an ancestor
\* of q, or where the two paths part p's branch was inserted first
VisitedBefore(root, p, q) ==
    \/ IsPrefixOf(p, q) /\ p # q
    \/ \E k \in 1..Len(p) :
          /\ k <= Len(q)
          /\ p[k] # q[k]
          /\ \A j \in 1..(k - 1) : p[j] = q[j]
          /\ IndexOf(root, SubSeq(p, 1, k)) < IndexOf(root, SubSeq(q, 1, k))

\* C7: after a successful compile messageTypes lists every message type of
\* the registry exactly once under its dotted full name, lists no namespace
\* and no enum, is in depth-first traversal order, and every listed name
\* resolves by lookup to the type it was collected from
C7_Extraction ==
    loadOutcome = "ok" =>
        /\ \A n \in TypesOf(protoRoot) :
              Cardinality({i \in 1..Len(messageTypes) : messageTypes[i] = Dotted(n.path)}) = 1
        /\ \A i \in 1..Len(messageTypes) :
              /\ Node(PathOf(messageTypes[i]), "type") \in TypesOf(protoRoot)
              /\ messageTypes[i] = Dotted(PathOf(messageTypes[i]))
              /\ lookupType(protoRoot, messageTypes[i])
                    = Node(PathOf(messageTypes[i]), "type")
        /\ \A i, j \in 1..Len(messageTypes) :
              i < j => VisitedBefore(protoRoot, PathOf(messageTypes[i]),
                                     PathOf(messageTypes[j]))

\* the three schema files compiled: types nested in a namespace, in a nested
\* namespace and in other types are listed
C7_Witness ==
    /\ loadOutcome = "ok"
    /\ {FileA, FileB, FileC} \subseteq DiscoveredFiles
    /\ Len(messageTypes) = Cardinality(TypesOf(protoRoot))
    /\ Dotted(<<"pkg", "Backend", "Inner", "Deep">>) \in SeqToSet(messageTypes)
    /\ Dotted(<<"pkg", "sub", "Config">>) \in SeqToSet(messageTypes)
    /\ Dotted(<<"Top", "Config">>) \in SeqToSet(messageTypes)

-----------------------------------------------------------------------------
(* Properties of the path-type resolver.                                   *)

RECURSIVE Concat(_)
\* the string the characters spell
Concat(chars) == IF chars = <<>> THEN "" ELSE chars[1] \o Concat(Tail(chars))

\* the characters of the first non-empty "/"-delimited segment of a path,
\* <<>> when the path has none
FirstSegment(path) ==
    LET starts == {i \in 1..Len(path) : path[i] # "/"}
    IN  IF starts = {} THEN <<>>
        ELSE LET i == CHOOSE x \in starts : \A y \in starts : x <= y
                 ends == {k \in i..Len(path) : \A m \in i..k : path[m] # "/"}
                 j == CHOOSE x \in ends : \A y \in ends : y <= x
             IN  SubSeq(path, i, j)

\* the type the table maps a segment to, none when it is not a key
TypeOfSegment(chars) ==
    IF \E i \in 1..Len(zkPathTypeMap) : zkPathTypeMap[i].segment = Concat(chars)
    THEN LET hit == CHOOSE i \in 1..Len(zkPathTypeMap) :
                        zkPathTypeMap[i].segment = Concat(chars)
         IN  zkPathTypeMap[hit].type
    ELSE NoType

\* the path with the root prefix removed when it starts with it
WithoutRoot(path) ==
    IF ZK_ROOT_PATH # <<>> /\ IsPrefixOf(ZK_ROOT_PATH, path)
    THEN SubSeq(path, Len(ZK_ROOT_PATH) + 1, Len(path))
    ELSE path

\* C8: getMessageTypeForPath returns the type the table maps the first
\* non-empty segment of the path without its root prefix to, and none when
\* there is no segment or it is not a key; no deeper segment decides
C8_FirstSegmentOnly ==
    resolveOut.strategy = "segment" =>
        /\ resolveOut.type = TypeOfSegment(FirstSegment(WithoutRoot(resolvePath)))
        /\ FirstSegment(WithoutRoot(resolvePath)) = <<>> => resolveOut.type = NoType

\* /r/a with no root: the deeper segment a is a key, the first segment r is
\* not, and nothing matches
C8_Witness ==
    /\ resolveOut.strategy = "segment"
    /\ ZK_ROOT_PATH = <<>>
    /\ resolvePath = <<"/", "r", "/", "a">>
    /\ TypeOfSegment(<<"a">>) # NoType
    /\ TypeOfSegment(<<"r">>) = NoType
    /\ resolveOut.type = NoType

\* C9: with a root prefix configured, a path that starts with the root
\* resolves to the type of its first segment after the root, and a path
\* that does not start with it resolves to the type of its own first
\* segment (none only when that segment is not a key)
C9_RootPrefix ==
    (resolveOut.strategy = "segment" /\ ZK_ROOT_PATH # <<>>) =>
        IF IsPrefixOf(ZK_ROOT_PATH, resolvePath)
        THEN resolveOut.type
               = TypeOfSegment(FirstSegment(
                    SubSeq(resolvePath, Len(ZK_ROOT_PATH) + 1, Len(resolvePath))))
        ELSE resolveOut.type = TypeOfSegment(FirstSegment(resolvePath))

\* root /r, a mapped: /a/r does not start with the root and resolves by its
\* first segment a
C9_Witness ==
    /\ resolveOut.strategy = "segment"
    /\ ZK_ROOT_PATH = <<"/", "r">>
    /\ resolvePath = <<"/", "a", "/", "r">>
    /\ TypeOfSegment(<<"a">>) = BackendName
    /\ resolveOut.type = BackendName

\* C9 as stated: a path that does not start with the root prefix resolves
\* to none
C9_MismatchIsNone ==
    (/\ resolveOut.strategy = "segment"
     /\ ZK_ROOT_PATH # <<>>
     /\ ~IsPrefixOf(ZK_ROOT_PATH, resolvePath)) => resolveOut.type = NoType

\* the entries of pathMappings whose prefix the path starts with
Matching(path) ==
    {i \in 1..Len(pathMappings) : IsPrefixOf(pathMappings[i].path, path)}

\* C10: the prefix strategy returns the type of the first entry, in
\* configuration order, whose prefix the path starts with, and none when
\* there is no such entry
C10_FirstRegistered ==
    resolveOut.strategy = "prefix" =>
        IF Matching(resolvePath) = {} THEN resolveOut.type = NoType
        ELSE \E i \in Matching(resolvePath) :
                /\ \A j \in Matching(resolvePath) : i <= j
                /\ resolveOut.type = pathMappings[i].type

\* /a registered before the longer /a/r: /a/r resolves to the type of /a
C10_Witness ==
    /\ resolveOut.strategy = "prefix"
    /\ pathMappings = << [path |-> <<"/", "a">>, type |-> BackendName],
                         [path |-> <<"/", "a", "/", "r">>, type |-> ConfigName] >>
    /\ resolvePath = <<"/", "a", "/", "r">>
    /\ resolveOut.type = BackendName

-----------------------------------------------------------------------------
(* Properties of the import resolver.                                      *)

\* the rules of the resolver that apply to (origin, target), by number
ApplicableRules(origin, target) ==
    {r \in 1..6 :
        \/ r = 1 /\ target # <<>> /\ target[1] = "/"
        \/ r = 2 /\ IsPrefixOf(<<"google", "/", "protobuf", "/">>, target)
        \/ r = 3 /\ IsPrefixOf(<<"google", "/", "api", "/">>, target)
        \/ r = 4 /\ PROTO_IMPORT_PREFIX # <<>> /\ IsPrefixOf(PROTO_IMPORT_PREFIX, target)
        \/ r = 5 /\ origin # <<>>
        \/ r = 6}

FirstRule(origin, target) ==
    CHOOSE r \in ApplicableRules(origin, target) :
        \A q \in ApplicableRules(origin, target) : r <= q

\* every segment of the path is a plain name
PlainPath(path) ==
    /\ path # <<>>
    /\ \A i \in 1..Len(path) :
          IF i % 2 = 1 THEN path[i] \notin {"/", ".", ".."} ELSE path[i] = "/"
    /\ Len(path) % 2 = 1

\* C11: the resolver returns the result of the first applicable rule, in the
\* order absolute target, bundled prefix, auxiliary prefix, import prefix,
\* directory of the importing file, schema directory; a target under the
\* import prefix resolves against the schema directory whatever file
\* imports it
C11_ImportPrecedence ==
    importOut # NoImport =>
        LET rule == FirstRule(importOrigin, importTarget)
            rest == SubSeq(importTarget, Len(PROTO_IMPORT_PREFIX) + 1, Len(importTarget))
        IN  /\ rule = 1 => importOut = importTarget
            /\ rule = 2 => importOut = join(ProtobufjsDir, importTarget)
            /\ rule = 3 => importOut = join(GOOGLE_PROTOS_DIR, importTarget)
            /\ rule = 4 => importOut = join(PROTO_DIR, rest)
            /\ rule = 5 => importOut = join(dirname(importOrigin), importTarget)
            /\ rule = 6 => importOut = join(PROTO_DIR, importTarget)
            /\ (rule = 4 /\ PlainPath(rest)) => importOut = PROTO_DIR \o <<"/">> \o rest
            /\ (rule \in {2, 3} /\ PlainPath(importTarget)) =>
                  /\ IsPrefixOf(IF rule = 2 THEN ProtobufjsDir ELSE GOOGLE_PROTOS_DIR,
                                importOut)
                  /\ SubSeq(importOut, Len(importOut) - Len(importTarget) + 1,
                            Len(importOut)) = importTarget

\* pre/x imported from /protos/sub/a.proto with the import prefix pre/
\* resolves to /protos/x, not under /protos/sub
C11_Witness ==
    /\ PROTO_IMPORT_PREFIX = <<"pre", "/">>
    /\ importOrigin = <<"/", "protos", "/", "sub", "/", "a.proto">>
    /\ importTarget = <<"pre", "/", "x">>
    /\ importOut = <<"/", "protos", "/", "x">>

-----------------------------------------------------------------------------
(* Properties of the error responses of the codec endpoints.               *)

\* the type name a decode request is parsed under
UsedTypeName(req) ==
    IF req.messageType # NoType THEN req.messageType
    ELSE IF req.path # <<>> THEN TypeOfSegment(FirstSegment(WithoutRoot(req.path)))
    ELSE NoType

\* the registry has no message type of that name
Absent(name) == name # NoType /\ lookupType(protoRoot, name) = NotFound

\* the response rejects the request as a caller error that names the type
\* and carries neither a decoded object nor a buffer
RejectsType(resp, name) ==
    /\ resp.status \in 400..499
    /\ "error" \in DOMAIN resp
    /\ resp.arg = name
    /\ "decoded" \notin DOMAIN resp
    /\ "dataHex" \notin DOMAIN resp

\* C12: a decode or encode request that names a type the registry does not
\* have is rejected as a caller error that echoes the type name, with no
\* decoded object and no buffer
C12_TypeNotFound ==
    /\ (decodeReq # NoReq /\ decodeReq.dataHex # <<>> /\ Absent(UsedTypeName(decodeReq)))
          => RejectsType(decodeResp, UsedTypeName(decodeReq))
    /\ (encodeReq # NoReq /\ Truthy(encodeReq.data) /\ Absent(encodeReq.messageType))
          => RejectsType(encodeResp, encodeReq.messageType)

\* the success shape of a decode response, or an error with its message
DecodeShape(resp) ==
    \/ /\ resp.status = 200
       /\ DOMAIN resp = {"status", "decoded", "messageType"}
       /\ resp.decoded.t = "object"
       /\ resp.messageType # NoType
    \/ /\ resp.status \in {400, 500}
       /\ DOMAIN resp = {"status", "error", "arg"}
       /\ resp.error # ""

\* the success shape of an encode response, or an error with its message
EncodeShape(resp) ==
    \/ /\ resp.status = 200
       /\ DOMAIN resp = {"status", "dataHex", "size"}
       /\ resp.size = ByteLength(resp.dataHex)
    \/ /\ resp.status \in {400, 500}
       /\ DOMAIN resp = {"status", "error", "arg"}
       /\ resp.error # ""

\* C13: every decode and every encode request is answered, by the success
\* shape or by an error that carries a message and nothing of a result,
\* whether the lookup, the parse, the normalization or the conversion fails
C13_FailureIsolation ==
    /\ decodeReq # NoReq => DecodeShape(decodeResp)
    /\ encodeReq # NoReq => EncodeShape(encodeResp)

\* a payload cut short was answered with an error, then a field the
\* converter throws on was
C13_Witness ==
    /\ decodeReq # NoReq
    /\ \E i \in 1..Len(decodeReq.dataHex) : decodeReq.dataHex[i].v = WTruncated
    /\ decodeResp.status = 500
    /\ decodeResp.error = "index out of range"
    /\ encodeReq # NoReq
    /\ encodeReq.messageType = BackendName
    /\ convertedData # NotCalled
    /\ encodeResp.status = 500

-----------------------------------------------------------------------------
(* Properties of formatStat.                                               *)

\* an optional minus sign and decimal digits
IsDecimalText(s) ==
    /\ s # <<>>
    /\ LET ds == IF s[1] = "-" THEN Tail(s) ELSE s
       IN  ds # <<>> /\ AllDigits(ds)

\* C14: formatStat renders czxid, mzxid, pzxid and ephemeralOwner as decimal
\* strings whatever the raw field is, "0" where it cannot be interpreted
C14_DecimalStrings ==
    (statOut # NotCalled /\ statOut # Thrown) =>
        \A f \in IdFields :
            /\ statOut[f].t = "string"
            /\ IsDecimalText(statOut[f].s)
            /\ statIn[f].t \in {"undefined", "null", "NaN", "opaque", "string"}
                  => statOut[f].s = <<"0">>

\* C15: formatStat returns a metadata value for every input, a missing or
\* null stat record included, and throws for none
C15_NeverThrows ==
    statOut # NotCalled =>
        /\ statOut # Thrown
        /\ statOut.t = "metadata"

\* the integer a raw timestamp stands for in one of the three
\* representations, or nothing
TimeValue(val) ==
    IF val.t = "buffer"
    THEN (IF Len(val.bytes) < 8 THEN NotCalled
          ELSE LET b == readBigInt64BE(val) IN [neg |-> b.neg, digits |-> b.digits])
    ELSE IF val.t = "Long" THEN [neg |-> val.neg, digits |-> val.digits]
    ELSE IF val.t = "number" /\ val.frac = <<>> THEN [neg |-> val.neg, digits |-> val.int]
    ELSE NotCalled

\* the value is above zero
IsPositive(v) == ~v.neg /\ v.digits # <<"0">>

\* C16: ctime and mtime given as a buffer, a long-integer wrapper or a plain
\* number render as null when zero or negative, as the ISO-8601 text of the
\* instant when positive and at most 8.64e15 ms, as null above that; a value
\* that cannot be interpreted renders as null, and nothing renders as the
\* epoch date
C16_Timestamps ==
    (statOut # NotCalled /\ statOut # Thrown) =>
        \A f \in TimeFields :
            LET v == TimeValue(statIn[f])
            IN  /\ statOut[f] # IsoString(<<"0">>)
                /\ v = NotCalled => statOut[f] = JNull
                /\ (v # NotCalled /\ ~IsPositive(v)) => statOut[f] = JNull
                /\ (v # NotCalled /\ IsPositive(v) /\ ~DecLess(MaxTimeValue, v.digits))
                      => statOut[f] = IsoString(v.digits)
                /\ (v # NotCalled /\ IsPositive(v) /\ DecLess(MaxTimeValue, v.digits))
                      => statOut[f] = JNull

\* a creation time in a buffer was rendered as the text of its instant
C16_Witness ==
    /\ statOut # NotCalled
    /\ statOut # Thrown
    /\ statIn.ctime = RBuffer(<<0, 0, 1, 139, 207, 229, 104, 0>>)
    /\ statOut.ctime = IsoString(Time2023)

\* C16 as stated: every positive ctime and mtime renders as the ISO-8601
\* text of its instant
C16_EveryPositiveIsIso ==
    (statOut # NotCalled /\ statOut # Thrown) =>
        \A f \in TimeFields :
            LET v == TimeValue(statIn[f])
            IN  /\ v = NotCalled => statOut[f] = JNull
                /\ (v # NotCalled /\ ~IsPositive(v)) => statOut[f] = JNull
                /\ (v # NotCalled /\ IsPositive(v)) => statOut[f] = IsoString(v.digits)

-----------------------------------------------------------------------------
(* Properties of the write endpoints.                                      *)

\* the operations that change the ZooKeeper tree
WriteOps == {"create", "setData", "remove"}

\* C17: with READ_ONLY set, every PUT and DELETE of /api/node is answered
\* 403 and no create, setData or remove is ever issued to ZooKeeper,
\* whatever requests ran before
C17_ReadOnly ==
    READ_ONLY =>
        /\ \A o \in zkOps : o.op \notin WriteOps
        /\ nodeResp # NoResp => nodeResp.status = 403

\* in read-only mode, connected to ZooKeeper, an encode request produced a
\* buffer and a write request was then refused
C17_Witness ==
    /\ READ_ONLY
    /\ zkConnected
    /\ encodeResp # NoResp
    /\ encodeResp.status = 200
    /\ encodeResp.dataHex # <<>>
    /\ nodeResp # NoResp
    /\ nodeResp.status = 403
    /\ zkOps = {}

-----------------------------------------------------------------------------
(* Properties of a load without schema files.                              *)

\* the last two tokens of the name are the schema extension
HasSchemaExtension(f) == Len(f) >= 2 /\ f[Len(f) - 1] = "." /\ f[Len(f)] = "proto"

\* the directory cannot be read or holds no schema file
NoSchemaFile == readdirFails \/ \A f \in dirEntries : ~HasSchemaExtension(f)

\* C18: a load over a directory without a schema file, or over one that
\* cannot be read, returns without an error and without a compile, start()
\* goes on to listen, and the type list and the registry are empty
C18_ZeroSchemaFiles ==
    (NoSchemaFile /\ loadPc = "done") =>
        /\ loadOutcome = "nofiles"
        /\ listening
        /\ messageTypes = <<>>
        /\ protoRoot = NewRoot

\* the load ended over a directory that holds only other files
C18_Witness ==
    /\ ~readdirFails
    /\ dirEntries = {FileTxt, FileBak}
    /\ loadPc = "done"
    /\ listening
    /\ messageTypes = <<>>

-----------------------------------------------------------------------------
(* Properties of the requests as a whole.                                  *)

\* every recorded response is what the same request gives against the
\* registry and the configuration of the present state
SameAnswerNow ==
    /\ decodeReq # NoReq =>
          decodeResp = DecodeResponse(decodeReq.dataHex, decodeReq.messageType,
                                      decodeReq.path)
    /\ encodeReq # NoReq =>
          /\ encodeResp = EncodeResult(encodeReq.data, encodeReq.messageType).resp
          /\ convertedData = EncodeResult(encodeReq.data, encodeReq.messageType).converted
    /\ resolveOut # NoResolution =>
          resolveOut.type = getMessageTypeForPath(resolvePath)

\* C19: path-type resolution, decode and encode change neither the
\* registry, the type list, the path-to-type mapping nor the root prefix,
\* and the answer to a request is the answer the same request gets after
\* any other requests
C19_SideEffectFree ==
    /\ []SameAnswerNow
    /\ [][UNCHANGED <<protoRoot, messageTypes, zkPathTypeMap, pathMappings,
                      ZK_ROOT_PATH>>]_vars

\* a decode that took its type from the path was answered, then an encode
\* and a resolution ran
C19_Witness ==
    /\ decodeReq # NoReq
    /\ decodeReq.messageType = NoType
    /\ decodeResp.status = 200
    /\ encodeReq # NoReq
    /\ encodeResp.status = 200
    /\ resolveOut # NoResolution
    /\ resolveOut.type = BackendName

-----------------------------------------------------------------------------
(* Properties of the type a decode request is parsed under.                *)

\* the type the path mapping gives for the path of the request
TypeFromPath(req) ==
    IF req.path # <<>> THEN getMessageTypeForPath(req.path) ELSE NoType

\* the response is the parse of the payload under the named type, or the
\* error of its lookup or parse
ParsedUnder(resp, req, name) ==
    IF resp.status = 200
    THEN /\ resp.messageType = name
         /\ lookupType(protoRoot, name) # NotFound
         /\ resp.decoded = ToObject(lookupType(protoRoot, name),
                                    DecodeMessage(lookupType(protoRoot, name),
                                                  req.dataHex))
    ELSE /\ resp.status = 500
         /\ lookupType(protoRoot, name) = NotFound => resp.arg = name

\* C20: a decode request with a payload is parsed under the explicit type
\* when one is given, under the type of the path mapping only when none is
\* given, is rejected with 'No message type specified' when neither gives a
\* type, and a success reports the type the payload was parsed under
C20_TypeSelection ==
    (decodeReq # NoReq /\ decodeReq.dataHex # <<>>) =>
        IF decodeReq.messageType # NoType
        THEN ParsedUnder(decodeResp, decodeReq, decodeReq.messageType)
        ELSE IF TypeFromPath(decodeReq) # NoType
        THEN ParsedUnder(decodeResp, decodeReq, TypeFromPath(decodeReq))
        ELSE decodeResp = ErrorResp(400, "No message type specified", <<>>)

\* a request that named a type other than the one its path maps to was
\* parsed under the named type
C20_Witness ==
    /\ decodeReq # NoReq
    /\ decodeReq.dataHex # <<>>
    /\ decodeReq.messageType = ConfigName
    /\ TypeFromPath(decodeReq) = BackendName
    /\ decodeResp.status = 200
    /\ decodeResp.messageType = ConfigName

-----------------------------------------------------------------------------
(* Properties of the write endpoints under concurrent requests.            *)

\* C21: every PUT with a path, on a writable and connected server, is
\* answered 'created' when the node was absent and 'updated' when it was
\* present, whatever other PUT and DELETE requests are in flight
C21_CreateOrUpdate ==
    \A id \in CallIds :
        LET c == nodeCalls[id]
        IN  (c.kind = "put" /\ c.pc = "done" /\ c.path # <<>>) =>
                /\ c.resp.status = 200
                /\ c.resp.action = IF c.present THEN "updated" ELSE "created"

-----------------------------------------------------------------------------
(* Properties of NodeView.                                                 *)

\* C22: the decoded data NodeView keeps for the Edit action is null or was
\* decoded from the payload of the selected path; a decode response for a
\* node selected before is never stored
C22_DecodedOfCurrentNode ==
    decodedData # JNull => decodedData.of = viewPath

\* C23: with no getNode call in flight and no error shown, the node in
\* NodeView's state is the one fetched for the selected path
C23_NodeOfSelectedPath ==
    (viewPath # <<>> /\ nodeFetches = {} /\ viewError = JNull) =>
        /\ viewNode # JNull
        /\ viewNode.path = viewPath

-----------------------------------------------------------------------------
(* Properties of the filtering SearchBar.                                  *)

\* no timer is pending and no search request is in flight
FilterSettled == debounceRef = NoTimer /\ searchFetches = {}

\* C24: once the timers and the search requests have settled, the filter
\* last passed to onFilterChange is the set of visible paths of the present
\* query (null when its search failed), null when the query is empty, and
\* the loading flag is false
C24_FilterOfLatestQuery ==
    FilterSettled =>
        /\ IsBlank(query) => lastFilter = JNull
        /\ ~IsBlank(query) =>
              lastFilter \in {JNull, Filter(VisiblePaths(SearchResults(query)))}
        /\ filterLoading = FALSE

-----------------------------------------------------------------------------
\* C25: zkConnected is true only if the client held in zkClient reported
\* 'connected' and no 'disconnected' or 'expired' since, and an event of a
\* client that was replaced after its session expired leaves zkConnected as
\* it is.
C25_FlagOfCurrentClient ==
    /\ [](zkConnected => (zkClient # 0 /\ clientState[zkClient] = "connected"))
    /\ [][\A c \in Clients :
            (c < zkClient /\ clientState'[c] # clientState[c]) => UNCHANGED zkConnected]_vars

-----------------------------------------------------------------------------
\* C26: every 'expired' event sets zkConnected to false and adds exactly one
\* reconnect timer; whenever the client held has lost its session a timer is
\* pending; and every client whose session expired is eventually replaced by
\* a fresh client whose connect() was called.
SessionLost(c) == clientState[c] \in {"expired", "closed"}

C26_ReconnectAfterExpiry ==
    /\ [][\A c \in Clients :
            (~SessionLost(c) /\ clientState'[c] = "expired") =>
                /\ zkConnected' = FALSE
                /\ reconnectTimers' = reconnectTimers + 1
                /\ zkClient' = zkClient]_vars
    /\ []((zkClient # 0 /\ SessionLost(zkClient)) => reconnectTimers > 0)
    /\ \A c \in Clients :
          SessionLost(c) ~> (zkClient > c /\ clientState[zkClient] # "none")

\* a session expired and a fresh client is connecting in its place
C26_Witness ==
    /\ zkClient > 1
    /\ SessionLost(zkClient - 1)
    /\ clientState[zkClient] = "connecting"
    /\ reconnectTimers = 0
    /\ ~zkConnected

-----------------------------------------------------------------------------
\* the answers of the guards, with no operation issued
NotConnected == [resp |-> ErrorResp(503, "Not connected to Zookeeper", <<>>), ops |-> {}]

ReadOnlyMode == [resp |-> ErrorResp(403, "Server is in read-only mode", <<>>), ops |-> {}]

ReadFailures == {"none", "getData", "getChildren", "getACL"}

WriteFailures == {"none", "exists", "write"}

\* the three read handlers refuse every request
ReadsRefused ==
    /\ \A path \in GuardPaths, fails \in ReadFailures :
          GetNodeResult(path, fails) = NotConnected
    /\ \A path \in GuardPaths, fails \in BOOLEAN :
          GetChildrenResult(path, << <<"a">> >>, fails) = NotConnected
    /\ \A pattern \in GuardPatterns : SearchResult(pattern, GuardTree) = NotConnected

\* the codec, info and protos endpoints answer as they do at any state of
\* the connection
CodecServed ==
    /\ decodeReq # NoReq =>
          /\ decodeResp = DecodeResponse(decodeReq.dataHex, decodeReq.messageType,
                                         decodeReq.path)
          /\ decodeResp.status = 200
    /\ encodeReq # NoReq =>
          /\ encodeResp = EncodeResult(encodeReq.data, encodeReq.messageType).resp
          /\ encodeResp.status = 200
    /\ InfoResult.resp.status = 200 /\ InfoResult.ops = {}
    /\ ProtosResult.resp.status = 200 /\ ProtosResult.ops = {}

\* C27 as stated: while zkConnected is false, GET /api/node, GET
\* /api/children, GET /api/search, PUT /api/node and DELETE /api/node answer
\* every request with 503 and issue no operation, and the codec endpoints
\* answer as ever.
C27_AllAnswer503 ==
    /\ ~zkConnected =>
          /\ ReadsRefused
          /\ \A path \in GuardPaths, exists \in BOOLEAN, fails \in WriteFailures :
                PutResult(path, <<>>, <<>>, exists, fails) = NotConnected
          /\ \A path \in GuardPaths, fails \in BOOLEAN :
                DeleteResult(path, fails) = NotConnected
    /\ CodecServed

\* C27, amended: while zkConnected is false the three GET handlers answer
\* 503, PUT and DELETE answer 503, or 403 when the server is read-only, no
\* step issues a ZooKeeper operation, and the codec endpoints answer as ever.
C27_NotConnectedGuard ==
    /\ [](~zkConnected =>
            /\ ReadsRefused
            /\ \A path \in GuardPaths, exists \in BOOLEAN, fails \in WriteFailures :
                  PutResult(path, <<>>, <<>>, exists, fails) =
                      IF READ_ONLY THEN ReadOnlyMode ELSE NotConnected
            /\ \A path \in GuardPaths, fails \in BOOLEAN :
                  DeleteResult(path, fails) =
                      IF READ_ONLY THEN ReadOnlyMode ELSE NotConnected)
    /\ []CodecServed
    /\ [][~zkConnected => zkOps' = zkOps]_vars

\* the connection was lost after operations were issued; a request was
\* refused with 503, and a decode and an encode request were served
C27_Witness ==
    /\ ~zkConnected
    /\ ~READ_ONLY
    /\ zkOps # {}
    /\ nodeResp = NotConnected.resp
    /\ decodeResp.status = 200
    /\ encodeResp.status = 200

-----------------------------------------------------------------------------
RECURSIVE PreOrder(_, _)
RECURSIVE PreOrderOfChildren(_, _, _, _)

\* the paths of the tree from a path down, every node before the nodes
\* below it and the children in the order given; nothing below a node whose
\* children cannot be read
PreOrder(tree, path) ==
    <<path>> \o PreOrderOfChildren(tree, path, ChildrenAt(tree, path).children, 1)

PreOrderOfChildren(tree, path, children, i) ==
    IF i > Len(children) THEN <<>>
    ELSE PreOrder(tree, childPath(path, children[i]))
         \o PreOrderOfChildren(tree, path, children, i + 1)

ContainsIgnoringCase(path, pattern) ==
    \E i \in 0..(Len(path) - Len(pattern)) :
        \A k \in 1..Len(pattern) :
            toLowerCase(<<path[i + k]>>) = toLowerCase(<<pattern[k]>>)

\* the first n elements of a sequence
FirstN(seq, n) == SubSeq(seq, 1, IF Len(seq) < n THEN Len(seq) ELSE n)

\* C28: a search is answered with at most 100 paths, no path twice, every
\* one containing the pattern ignoring case: the first 100 matching paths of
\* the tree in depth-first pre-order, where only the nodes below a node
\* whose children cannot be read are left out; an empty pattern is answered
\* with the empty list and no getChildren call.
C28_BoundedSearch ==
    (nodeResp # NoResp) =>
        LET results == nodeResp.results
            matches(p) == ContainsIgnoringCase(p, searchPattern)
        IN  /\ nodeResp.status = 200
            /\ Len(results) <= 100
            /\ \A i, j \in 1..Len(results) : results[i] = results[j] => i = j
            /\ \A i \in 1..Len(results) : matches(results[i])
            /\ IF searchPattern = <<>>
               THEN results = <<>> /\ zkOps = {}
               ELSE /\ results = FirstN(SelectSeq(PreOrder(searchTree, <<"/">>), matches), 100)
                    /\ \A op \in zkOps : op.op = "getChildren"

\* a search went past a node whose children cannot be read and stopped at
\* 100 paths with a matching node left
C28_Witness ==
    /\ nodeResp # NoResp
    /\ searchTree = WideTree
    /\ searchPattern = <<"A">>
    /\ Len(nodeResp.results) = 100
    /\ nodeResp.results[1] = <<"/", "a", "1">>
    /\ ~ChildrenAt(searchTree, <<"/", "a", "1">>).readable
    /\ Cardinality(zkOps) > 100

-----------------------------------------------------------------------------
\* C29: the type the client detects for a path from the published root
\* prefix and table is the type, or none, that the server's
\* getMessageTypeForPath resolves for that path.
C29_PreviewAgrees ==
    /\ clientAutoType.called => clientAutoType.type = getMessageTypeForPath(viewPath)
    /\ (clientAutoType.called /\ resolveOut # NoResolution) =>
          clientAutoType.type = resolveOut.type

-----------------------------------------------------------------------------
\* the answer to a DELETE that names no node below the root
InvalidPath == [resp |-> ErrorResp(400, "Invalid path", <<>>), ops |-> {}]

RootPaths == {<<>>, <<"/">>}

\* C30 as stated: a DELETE /api/node whose path is missing or '/' is
\* answered with 400 'Invalid path' and issues no remove, and no remove of
\* the root was ever issued.
C30_RootAnswers400 ==
    /\ \A path \in RootPaths, fails \in BOOLEAN : DeleteResult(path, fails) = InvalidPath
    /\ \A op \in zkOps : op.op = "remove" => op.path \notin RootPaths

\* C30, amended: a DELETE /api/node whose path is missing or '/' issues no
\* operation and is answered with 403 in read-only mode, else with 503
\* without a connection, else with 400 'Invalid path'; no request issues a
\* remove of the root.
C30_RootNeverDeleted ==
    /\ [](\A path \in RootPaths, fails \in BOOLEAN :
            DeleteResult(path, fails) =
                IF READ_ONLY THEN ReadOnlyMode
                ELSE IF ~zkConnected THEN NotConnected
                ELSE InvalidPath)
    /\ [](\A op \in zkOps : op.op = "remove" => op.path \notin RootPaths)
    /\ [][\A op \in zkOps' \ zkOps : op.op = "remove" => op.path \notin RootPaths]_vars

\* a node below the root was removed and a DELETE of the root was then
\* answered with 400
C30_Witness ==
    /\ zkConnected
    /\ ~READ_ONLY
    /\ ZkOp("remove", <<"/", "a">>, <<>>) \in zkOps
    /\ nodeResp = InvalidPath.resp

=============================================================================
